---------------------------- MODULE Spec2Model ----------------------------
(***************************************************************************)
(* A model of the StarRez package logger content scripts.                  *)
(*                                                                         *)
(* The repository holds several generations of the same content script.    *)
(* They are modelled here under eight specifications:                      *)
(*   - Spec: v2.2 (src/starrez-logger/content.js, lines 370-1603) on a     *)
(*     page that the host keeps updating                                   *)
(*   - SpecHabitat: v3.0 "Habitat" (src/unnamed/part_003) on such a page   *)
(*   - SpecKeys: the key-code extractors of v2.2, v3.0 Habitat, v3.0 final *)
(*     and v3.1 (src/unnamed/part_000) as pure functions of a page         *)
(*   - SpecRecord: the package log generators of v2.2, v3.0 Habitat and    *)
(*     v3.0 final on one profile page                                      *)
(*   - SpecLockout: the lockout generators of the four on pages with keys  *)
(*   - SpecScope: the lockout generators of the four on documents with     *)
(*     text outside the active container                                   *)
(*   - SpecTimers: the debounce timers of v2.2, timeout by timeout         *)
(*   - SpecRows: v2.2 on a parcel list whose rows the host adds and        *)
(*     removes                                                             *)
(*                                                                         *)
(* Page text is a TLA+ string and every regular expression of the source   *)
(* is translated into a matcher over the characters of that string.        *)
(* Positions are 1-based; 0 stands for "no match" (JavaScript's -1/null).  *)
(***************************************************************************)
EXTENDS Integers, Sequences, FiniteSets, TLC

(***************************************************************************)
(* Characters and strings                                                  *)
(***************************************************************************)
Null == "<null>"

DigitSeq == "0123456789"
UpperSeq == "ABCDEFGHIJKLMNOPQRSTUVWXYZ"
LowerSeq == "abcdefghijklmnopqrstuvwxyz"

Ch(s, i) == SubSeq(s, i, i)

Digit == {Ch(DigitSeq, i) : i \in 1..Len(DigitSeq)}
Upper == {Ch(UpperSeq, i) : i \in 1..Len(UpperSeq)}
Lower == {Ch(LowerSeq, i) : i \in 1..Len(LowerSeq)}
Letter == Upper \cup Lower
Alnum == Digit \cup Letter
WhiteSpace == {" ", "\t", "\n", "\r"}

LowerOf == [c \in Upper |-> Ch(LowerSeq, CHOOSE i \in 1..Len(UpperSeq) : Ch(UpperSeq, i) = c)]

toLowerCase(c) == IF c \in Upper THEN LowerOf[c] ELSE c

\* The character classes of the source's regular expressions.
\*   "d"   \d            "an"  [A-Z0-9] under the i flag      "AN"  [A-Z0-9]
\*   "s"   \s            "az"  [a-z] under the i flag         "lc"  [a-z]
\*   "ncn" [^:\r\n]      "cs"  [,\s]
\*   "cw"  [:\s]         "dot" .
InClass(cls, c) ==
    CASE cls = "d"   -> c \in Digit
      [] cls = "an"  -> c \in Alnum
      [] cls = "AN"  -> c \in Digit \cup Upper
      [] cls = "s"   -> c \in WhiteSpace
      [] cls = "az"  -> c \in Letter
      [] cls = "lc"  -> c \in Lower
      [] cls = "ncn" -> c \notin {":", "\r", "\n"}
      [] cls = "cs"  -> c \in WhiteSpace \cup {","}
      [] cls = "cw"  -> c \in WhiteSpace \cup {":"}
      [] cls = "dot" -> c \notin {"\n", "\r"}

\* The first position in lo..hi that satisfies P, hi + 1 when none does: the
\* left-to-right scan of a regular expression engine.
First(lo, hi, P(_)) ==
    IF lo > hi THEN hi + 1
    ELSE CHOOSE i \in lo..(hi + 1) : /\ (i = hi + 1 \/ P(i))
                                     /\ \A j \in lo..(i - 1) : ~P(j)

\* A greedy run X* from position p: the first position at or after p whose
\* character is not in the class (Len(s) + 1 when the run reaches the end).
RunEnd(s, p, cls) ==
    IF p > Len(s) THEN p ELSE First(p, Len(s), LAMBDA i : ~InClass(cls, Ch(s, i)))

\* A literal at position p, case-sensitive and under the i flag.
LitAt(s, p, lit) ==
    /\ p >= 1
    /\ p + Len(lit) - 1 <= Len(s)
    /\ SubSeq(s, p, p + Len(lit) - 1) = lit

LitAtCI(s, p, lit) ==
    /\ p >= 1
    /\ p + Len(lit) - 1 <= Len(s)
    /\ \A i \in 1..Len(lit) : toLowerCase(Ch(s, p + i - 1)) = toLowerCase(Ch(lit, i))

\* String.prototype.indexOf from position p (0: not found), and its i-flag twin.
FoundAt(s, at) == IF at > Len(s) THEN 0 ELSE at

indexOfFrom(s, lit, p) == FoundAt(s, First(p, Len(s), LAMBDA i : LitAt(s, i, lit)))

indexOfFromCI(s, lit, p) == FoundAt(s, First(p, Len(s), LAMBDA i : LitAtCI(s, i, lit)))

indexOf(s, lit) == indexOfFrom(s, lit, 1)

includes(s, lit) == indexOf(s, lit) # 0

\* String.prototype.substring(from) with a 1-based start.
substringFrom(s, p) == SubSeq(s, p, Len(s))

\* String.prototype.trim.
trimFrom(s, b) ==
    SubSeq(s, b, First(b, Len(s), LAMBDA i : \A j \in i..Len(s) : Ch(s, j) \in WhiteSpace) - 1)

trim(s) == trimFrom(s, RunEnd(s, 1, "s"))

\* JavaScript truthiness of a string-or-null value.
Truthy(v) == v # Null /\ v # ""

(***************************************************************************)
(* Pattern library                                                         *)
(***************************************************************************)
NoMatch == [from |-> 0, to |-> 0]

\* CONFIG.RESIDENCE_PATTERN, /[A-Z0-9]+[NS]?-(?:[A-Z0-9]+-)?\d+[a-z]/i.
\* \d+[a-z] from p, where the digit run ends at e: the index of the bedspace
\* letter, 0 when there is no match.
DigitsThenLetter(s, p, e) ==
    IF e > p /\ e <= Len(s) /\ InClass("az", Ch(s, e)) THEN e ELSE 0

RoomTailDigits(s, p) == DigitsThenLetter(s, p, RunEnd(s, p, "d"))

\* A run [A-Z0-9]+ from p that ends at q and is followed by a hyphen.
RunThenHyphen(s, p, q) == q > p /\ q <= Len(s) /\ Ch(s, q) = "-"

\* After the first hyphen: the optional segment [A-Z0-9]+- and then \d+[a-z].
SegmentThenDigits(s, p, q) ==
    IF RunThenHyphen(s, p, q) THEN RoomTailDigits(s, q + 1) ELSE 0

RoomTailSegment(s, p) == SegmentThenDigits(s, p, RunEnd(s, p, "an"))

\* The ends of the matches that start exactly at p, in the order the regular
\* expression engine tries them (the optional segment is greedy). Under the i
\* flag [NS]? is absorbed by [A-Z0-9]+, so the first part is one run.
RoomEndsAfterRun(s, p, q) ==
    IF RunThenHyphen(s, p, q)
    THEN SelectSeq(<<RoomTailSegment(s, q + 1), RoomTailDigits(s, q + 1)>>,
                   LAMBDA e : e # 0)
    ELSE <<>>

RoomEndsAt(s, p) == RoomEndsAfterRun(s, p, RunEnd(s, p, "an"))

\* The first element of a sequence of positions, 0 for the empty sequence.
FirstEnd(ends) == IF ends = <<>> THEN 0 ELSE ends[1]

RoomEndAt(s, p) == FirstEnd(RoomEndsAt(s, p))

\* The match that starts at the position a scan stopped at.
RoomMatchAt(s, at) ==
    IF at > Len(s) THEN NoMatch ELSE [from |-> at, to |-> RoomEndAt(s, at)]

\* RegExp.prototype.exec of RESIDENCE_PATTERN from position p: the leftmost match.
FirstRoomFrom(s, p) ==
    RoomMatchAt(s, First(p, Len(s), LAMBDA i : RoomEndAt(s, i) # 0))

\* The text of a match, Null for no match.
MatchText(s, m) == IF m.from = 0 THEN Null ELSE SubSeq(s, m.from, m.to)

\* CONFIG.RESIDENCE_PATTERN.test(v); test(null) and test(undefined) test the
\* strings "null" and "undefined", which hold no hyphen.
RESIDENCE_PATTERN_test(v) == v # Null /\ FirstRoomFrom(v, 1).from # 0

\* String.prototype.match with the g flag: every non-overlapping match.
RECURSIVE AllRoomsFrom(_, _)
RoomsFromMatch(s, m) ==
    IF m.from = 0 THEN <<>>
    ELSE <<SubSeq(s, m.from, m.to)>> \o AllRoomsFrom(s, m.to + 1)

AllRoomsFrom(s, p) == RoomsFromMatch(s, FirstRoomFrom(s, p))

\* CONFIG.STUDENT_NUMBER_PATTERN, /^\d{8}$/.
STUDENT_NUMBER_PATTERN_test(v) ==
    v # Null /\ Len(v) = 8 /\ \A i \in 1..8 : Ch(v, i) \in Digit

\* \d{8} at position p.
EightDigitsAt(s, p) == p + 7 <= Len(s) /\ \A i \in p..(p + 7) : Ch(s, i) \in Digit

\* /Student Number\s+(\d{8})/ from position p: the capture, or Null.
RECURSIVE StudentNumberFrom(_, _)
StudentNumberAfter(s, at, w) ==
    IF at = 0 THEN Null
    ELSE IF w > at + 14 /\ EightDigitsAt(s, w) THEN SubSeq(s, w, w + 7)
    ELSE StudentNumberFrom(s, at + 1)

StudentNumberAt(s, at) == StudentNumberAfter(s, at, RunEnd(s, at + 14, "s"))

StudentNumberFrom(s, p) == StudentNumberAt(s, indexOfFrom(s, "Student Number", p))

\* /Student Number\s*[:.]?\s*(\d{8})/i from position p: the capture, or Null.
RECURSIVE StudentNumberHabitatFrom(_, _)
StudentNumberHabitatAfter(s, at, w2) ==
    IF at = 0 THEN Null
    ELSE IF EightDigitsAt(s, w2) THEN SubSeq(s, w2, w2 + 7)
    ELSE StudentNumberHabitatFrom(s, at + 1)

\* \s*[:.]?\s* where the first whitespace run ends at w1.
SkipSeparator(s, w1) ==
    IF w1 <= Len(s) /\ Ch(s, w1) \in {":", "."} THEN RunEnd(s, w1 + 1, "s") ELSE w1

StudentNumberHabitatAt(s, at) ==
    StudentNumberHabitatAfter(s, at, SkipSeparator(s, RunEnd(s, at + 14, "s")))

StudentNumberHabitatFrom(s, p) ==
    StudentNumberHabitatAt(s, indexOfFromCI(s, "Student Number", p))

(***************************************************************************)
(* Room code extraction, v2.2 (content.js) and v3.0 Habitat (part_003)     *)
(***************************************************************************)
\* Method 1, /Room\s+(ROOM)\/(ROOM)/i at position p: the second capture, or
\* Null. The first ROOM backtracks over its optional segment until a slash
\* and a second ROOM follow.
SlashThenRoom(s, e) ==
    e + 1 <= Len(s) /\ Ch(s, e + 1) = "/" /\ RoomEndAt(s, e + 2) # 0

SecondRoomAfter(s, ends) ==
    IF ends = <<>> THEN Null ELSE SubSeq(s, ends[1] + 2, RoomEndAt(s, ends[1] + 2))

BedspaceAfterLabel(s, p, w) ==
    IF LitAtCI(s, p, "Room") /\ w > p + 4
    THEN SecondRoomAfter(s, SelectSeq(RoomEndsAt(s, w), LAMBDA e : SlashThenRoom(s, e)))
    ELSE Null

BedspaceAfterSlashAt(s, p) == BedspaceAfterLabel(s, p, RunEnd(s, p + 4, "s"))

BedspaceAtOrNull(s, at) == IF at > Len(s) THEN Null ELSE BedspaceAfterSlashAt(s, at)

BedspaceAfterSlashFrom(s, p) ==
    BedspaceAtOrNull(s, First(p, Len(s), LAMBDA i : BedspaceAfterSlashAt(s, i) # Null))

\* Method 2, /Rez 360[\s\S]*?(?=Activity|Related|$)/: the section runs from the
\* first "Rez 360" to the first "Activity" or "Related" after it, or to the end.
SectionEnd(s, p) ==
    First(p, Len(s), LAMBDA i : LitAt(s, i, "Activity") \/ LitAt(s, i, "Related")) - 1

SectionFrom(s, at) == IF at = 0 THEN Null ELSE SubSeq(s, at, SectionEnd(s, at + 7))

Rez360Section(s) == SectionFrom(s, indexOf(s, "Rez 360"))

FirstRoomIn(sec) == IF sec = Null THEN Null ELSE MatchText(sec, FirstRoomFrom(sec, 1))

BedspaceInRez360(s) == FirstRoomIn(Rez360Section(s))

\* Method 3, /Room Space[\s\S]*?(ROOM)/i: the first room code after the label.
FirstRoomAfter(s, at) ==
    IF at = 0 THEN Null ELSE MatchText(s, FirstRoomFrom(s, at + 10))

BedspaceAfterRoomSpace(s) == FirstRoomAfter(s, indexOfFromCI(s, "Room Space", 1))

\* Method 4, every match of RESIDENCE_PATTERN with the g flag: the last one.
LastOf(matches) == IF Len(matches) > 0 THEN matches[Len(matches)] ELSE Null

BedspaceLastMatch(s) == LastOf(AllRoomsFrom(s, 1))

\* The first truthy result of a chain of methods, Null when there is none.
FirstTruthy(results) ==
    IF \E i \in 1..Len(results) : Truthy(results[i])
    THEN results[CHOOSE i \in 1..Len(results) :
                     /\ Truthy(results[i])
                     /\ \A j \in 1..(i - 1) : ~Truthy(results[j])]
    ELSE Null

\* extractBedspace with its methods in the opposite order.
extractBedspaceReversed(containerText) ==
    FirstTruthy(<<BedspaceLastMatch(containerText), BedspaceAfterRoomSpace(containerText),
                  BedspaceInRez360(containerText), BedspaceAfterSlashFrom(containerText, 1)>>)

\* extractBedspace of v2.2: the first method with a truthy result.
extractBedspace(containerText) ==
    FirstTruthy(<<BedspaceAfterSlashFrom(containerText, 1),
                  BedspaceInRez360(containerText),
                  BedspaceAfterRoomSpace(containerText),
                  BedspaceLastMatch(containerText)>>)

(***************************************************************************)
(* Key-code patterns                                                       *)
(***************************************************************************)
\* The key-label vocabulary of v3.0 Habitat and of v3.0 final / v3.1.
KeyLabelsHabitat == <<"Bedroom", "Floor", "Mail", "Unit", "Key", "LOANER">>
KeyLabelsFinal == <<"Bedroom", "Suite", "Floor", "Unit", "Key", "LOANER">>

\* The characters between an anchor and a key label in the scoped search,
\* [\s\S]{0,300}?.
WINDOW == 300

FirstLen(hit) == IF hit = <<>> THEN 0 ELSE Len(hit[1])

LabelLenAt(s, p, labels) == FirstLen(SelectSeq(labels, LAMBDA l : LitAtCI(s, p, l)))

\* /(?:LABELS)[^:\r\n]*:\s*([A-Z0-9]+)/i at position p: the capture [from, to].
\* The capture runs from r to e - 1.
KeyCapture(r, e) == IF e > r THEN [from |-> r, to |-> e - 1] ELSE NoMatch

\* ([A-Z0-9]+) where \s* ended at r.
KeyAfterSpace(s, r) == KeyCapture(r, RunEnd(s, r, "an"))

\* :\s*([A-Z0-9]+) where [^:\r\n]* ended at q.
KeyAfterColon(s, q) ==
    IF q <= Len(s) /\ Ch(s, q) = ":" THEN KeyAfterSpace(s, RunEnd(s, q + 1, "s"))
    ELSE NoMatch

KeyAfterLabel(s, p, n) ==
    IF n > 0 THEN KeyAfterColon(s, RunEnd(s, p + n, "ncn")) ELSE NoMatch

KeyEntryAt(s, p, labels) == KeyAfterLabel(s, p, LabelLenAt(s, p, labels))

\* text.matchAll of the pattern with the gi flags: the captures, left to right.
RECURSIVE AllKeyEntriesFrom(_, _, _)
KeyEntriesFromMatch(s, m, labels) ==
    IF m.from = 0 THEN <<>>
    ELSE <<SubSeq(s, m.from, m.to)>> \o AllKeyEntriesFrom(s, m.to + 1, labels)

KeyEntryAtOrNone(s, at, hi, labels) ==
    IF at > hi THEN NoMatch ELSE KeyEntryAt(s, at, labels)

FirstKeyEntryIn(s, p, hi, labels) ==
    KeyEntryAtOrNone(s, First(p, hi, LAMBDA i : KeyEntryAt(s, i, labels).from # 0), hi, labels)

AllKeyEntriesFrom(s, p, labels) ==
    KeyEntriesFromMatch(s, FirstKeyEntryIn(s, p, Len(s), labels), labels)

\* [\s\S]{0,300}? then the key pattern, from position p: the lazy quantifier
\* takes the nearest entry that starts at most WINDOW characters after p.
Min(a, b) == IF a < b THEN a ELSE b

NearestKeyEntry(s, p, labels) == FirstKeyEntryIn(s, p, Min(p + WINDOW, Len(s)), labels)

\* text.matchAll of `${anchor}[\s\S]{0,300}?(?:LABELS)[^:\r\n]*:\s*([A-Z0-9]+)`
\* with the gi flags: the captures, left to right. The search resumes after
\* the end of each match.
RECURSIVE AllScopedEntriesFrom(_, _, _, _)
ScopedEntriesFromMatch(s, at, m, anchor, labels) ==
    IF m.from # 0
    THEN <<SubSeq(s, m.from, m.to)>> \o AllScopedEntriesFrom(s, m.to + 1, anchor, labels)
    ELSE AllScopedEntriesFrom(s, at + 1, anchor, labels)

ScopedEntriesFromAnchor(s, at, anchor, labels) ==
    IF at = 0 THEN <<>>
    ELSE ScopedEntriesFromMatch(s, at, NearestKeyEntry(s, at + Len(anchor), labels),
                                anchor, labels)

AllScopedEntriesFrom(s, p, anchor, labels) ==
    ScopedEntriesFromAnchor(s, indexOfFromCI(s, anchor, p), anchor, labels)

(***************************************************************************)
(* Key-code extraction                                                     *)
(***************************************************************************)
\* A key-code result: null, or an array of codes.
NullKeys == [null |-> TRUE, codes |-> <<>>]
KeyArray(codes) == [null |-> FALSE, codes |-> codes]

Range(seq) == {seq[i] : i \in 1..Len(seq)}

\* Array.from(new Set(codes)): the first occurrence of each code, in order.
AppendNew(front, last) == IF last \in Range(front) THEN front ELSE Append(front, last)

RECURSIVE Unique(_)
Unique(codes) ==
    IF codes = <<>> THEN <<>>
    ELSE AppendNew(Unique(SubSeq(codes, 1, Len(codes) - 1)), codes[Len(codes)])

\* /[a-z]/.test(code)
HasLowercase(code) == \E i \in 1..Len(code) : InClass("lc", Ch(code, i))

\* The token filter of extractUniqueCodes and processKey: longer than two
\* characters, no lowercase character, not the student's own number.
MIN_CODE_LENGTH == 2

KeepsTrimmed(code, studentID) ==
    Len(code) > MIN_CODE_LENGTH /\ ~HasLowercase(code) /\ code # studentID

KeepsCode(code, studentID) == KeepsTrimmed(trim(code), studentID)

\* extractUniqueCodes of v3.0 Habitat.
extractUniqueCodes(matches, studentID) ==
    IF Len(matches) = 0 THEN NullKeys
    ELSE KeyArray(Unique(SelectSeq(matches, LAMBDA c : KeepsCode(c, studentID))))

\* processKey of v3.0 final and v3.1, applied to every match into one Set.
processKeys(matches, studentID) ==
    KeyArray(Unique(SelectSeq(matches, LAMBDA c : KeepsCode(c, studentID))))

\* /Entry Name.*Student Number/i.test(text): both column headers on one line.
RECURSIVE HasReportColumnsFrom(_, _)
HasColumnsAfter(s, at, eol) ==
    IF at = 0 THEN FALSE
    ELSE IF indexOfFromCI(SubSeq(s, at + 10, eol - 1), "Student Number", 1) # 0 THEN TRUE
    ELSE HasReportColumnsFrom(s, at + 1)

HasColumnsAt(s, at) == HasColumnsAfter(s, at, RunEnd(s, at + 10, "dot"))

HasReportColumnsFrom(s, p) == HasColumnsAt(s, indexOfFromCI(s, "Entry Name", p))

\* /Loaner Keys Report/i.test(text)
HasReportTitle(s) == indexOfFromCI(s, "Loaner Keys Report", 1) # 0

\* String.prototype.split(',').
RECURSIVE splitComma(_)
splitAt(s, at) ==
    IF at = 0 THEN <<s>>
    ELSE <<SubSeq(s, 1, at - 1)>> \o splitComma(substringFrom(s, at + 1))

splitComma(s) == splitAt(s, indexOf(s, ","))

\* Array.prototype.reverse().join(' ').
RECURSIVE reverseJoin(_)
reverseJoin(parts) ==
    IF Len(parts) = 1 THEN parts[1]
    ELSE parts[Len(parts)] \o " " \o reverseJoin(SubSeq(parts, 1, Len(parts) - 1))

\* The name the name-scoped search looks for: "Last, First" becomes "First Last".
simpleName(studentName) ==
    IF includes(studentName, ",") THEN trim(reverseJoin(splitComma(studentName)))
    ELSE studentName

\* Report-mode detection of v3.0 Habitat: the column headers or the report title.
isReportModeHabitat(text) == HasReportColumnsFrom(text, 1) \/ HasReportTitle(text)

\* The choice of v3.0 Habitat among the unscoped, the id-scoped and the
\* name-scoped matches.
chooseHabitat(reportMode, studentName, studentID, allMatches, strictMatches, nameMatches) ==
    IF reportMode /\ Truthy(studentID)
    THEN IF Len(strictMatches) > 0 THEN extractUniqueCodes(strictMatches, studentID)
         ELSE IF Truthy(studentName) /\ Len(nameMatches) > 0
              THEN extractUniqueCodes(nameMatches, studentID)
              ELSE NullKeys
    ELSE extractUniqueCodes(allMatches, studentID)

\* A choice that hands back the unscoped candidates when both scoped searches
\* of a report come back empty.
chooseUnscopedFallback(reportMode, studentName, studentID, allMatches, strictMatches, nameMatches) ==
    IF Len(strictMatches) > 0 /\ reportMode
    THEN extractUniqueCodes(strictMatches, studentID)
    ELSE IF Len(nameMatches) > 0 /\ reportMode
    THEN extractUniqueCodes(nameMatches, studentID)
    ELSE extractUniqueCodes(allMatches, studentID)

extractKeyCodesUnscopedFallback(text, studentName, studentID) ==
    chooseUnscopedFallback(isReportModeHabitat(text), studentName, studentID,
        AllKeyEntriesFrom(text, 1, KeyLabelsHabitat),
        AllScopedEntriesFrom(text, 1, studentID, KeyLabelsHabitat),
        AllScopedEntriesFrom(text, 1, simpleName(studentName), KeyLabelsHabitat))

\* extractKeyCodes(studentName, studentID) of v3.0 Habitat on the text of the
\* active container.
extractKeyCodesHabitat(text, studentName, studentID) ==
    chooseHabitat(isReportModeHabitat(text), studentName, studentID,
        AllKeyEntriesFrom(text, 1, KeyLabelsHabitat),
        AllScopedEntriesFrom(text, 1, studentID, KeyLabelsHabitat),
        AllScopedEntriesFrom(text, 1, simpleName(studentName), KeyLabelsHabitat))

\* The number of key entries above which v3.0 final and v3.1 take a page for a
\* report (allMatches.length > 4).
REPORT_MATCH_THRESHOLD == 4

\* Report-mode detection of v3.0 final: columns, title, or a busy list.
isReportModeFinal(text) ==
    \/ HasReportColumnsFrom(text, 1)
    \/ HasReportTitle(text)
    \/ Len(AllKeyEntriesFrom(text, 1, KeyLabelsFinal)) > REPORT_MATCH_THRESHOLD

\* Report-mode detection of v3.1: columns, or a busy list.
isReportModeV31(text) ==
    \/ HasReportColumnsFrom(text, 1)
    \/ Len(AllKeyEntriesFrom(text, 1, KeyLabelsFinal)) > REPORT_MATCH_THRESHOLD

\* The choice of v3.0 final and v3.1 between the id-scoped and the unscoped
\* matches.
chooseFinal(text, reportMode, studentID) ==
    IF reportMode /\ Truthy(studentID)
    THEN processKeys(AllScopedEntriesFrom(text, 1, studentID, KeyLabelsFinal), studentID)
    ELSE processKeys(AllKeyEntriesFrom(text, 1, KeyLabelsFinal), studentID)

\* extractKeyCodes(studentID) of v3.0 final.
extractKeyCodesFinal(text, studentID) == chooseFinal(text, isReportModeFinal(text), studentID)

\* extractKeyCodes(studentID) of v3.1.
extractKeyCodesV31(text, studentID) == chooseFinal(text, isReportModeV31(text), studentID)

\* v2.2: /(?:Key Code|LOANER.*?)[:\s]+([A-Z0-9]+(?:[,\s]+[A-Z0-9]+)*)/i.
\* [:\s]+ and the first code at position p: the position of the code, or 0.
CodeAfterSeparator(s, p, r) == IF r > p /\ RunEnd(s, r, "an") > r THEN r ELSE 0

KeyCodeListAt(s, p) == CodeAfterSeparator(s, p, RunEnd(s, p, "cw"))

\* LOANER.*? : the lazy run stays on the line and stops at the first
\* separator run that a code follows.
KeyCodeListAtOrNone(s, at, eol) == IF at > eol THEN 0 ELSE KeyCodeListAt(s, at)

FirstKeyCodeListIn(s, p, eol) ==
    KeyCodeListAtOrNone(s, First(p, eol, LAMBDA i : KeyCodeListAt(s, i) # 0), eol)

LoanerListFrom(s, p) == FirstKeyCodeListIn(s, p, RunEnd(s, p, "dot"))

\* The position of the captured list for a match that starts at p, or 0.
KeyCodeMatchAt(s, p) ==
    IF LitAtCI(s, p, "Key Code") /\ KeyCodeListAt(s, p + 8) # 0 THEN KeyCodeListAt(s, p + 8)
    ELSE IF LitAtCI(s, p, "LOANER") THEN LoanerListFrom(s, p + 6)
    ELSE 0

KeyCodeMatchAtOrNone(s, at) == IF at > Len(s) THEN 0 ELSE KeyCodeMatchAt(s, at)

FirstKeyCodeMatchFrom(s, p) ==
    KeyCodeMatchAtOrNone(s, First(p, Len(s), LAMBDA i : KeyCodeMatchAt(s, i) # 0))

\* ([A-Z0-9]+(?:[,\s]+[A-Z0-9]+)*) from position p, split on /[,\s]+/: the
\* codes of the captured list.
RECURSIVE CodeList(_, _)
CodesAfter(s, p, e, n) ==
    IF n > e /\ RunEnd(s, n, "an") > n
    THEN <<SubSeq(s, p, e - 1)>> \o CodeList(s, n)
    ELSE <<SubSeq(s, p, e - 1)>>

CodesFrom(s, p, e) == CodesAfter(s, p, e, RunEnd(s, e, "cs"))

CodeList(s, p) == CodesFrom(s, p, RunEnd(s, p, "an"))

\* extractKeyCodes() of v2.2 on the text of the active container.
CodesAt(containerText, at) ==
    IF at = 0 THEN NullKeys ELSE KeyArray(CodeList(containerText, at))

extractKeyCodes(containerText) == CodesAt(containerText, FirstKeyCodeMatchFrom(containerText, 1))

(***************************************************************************)
(* v2.2 (content.js): breadcrumb, content hash, record extraction          *)
(***************************************************************************)
\* getCurrentBreadcrumb: the trimmed text of the first breadcrumb item that
\* holds a comma and neither "Dashboard" nor "Desk"; Null when there is none.
IsStudentCrumb(text) ==
    includes(text, ",") /\ ~includes(text, "Dashboard") /\ ~includes(text, "Desk")

CrumbAt(breadcrumbs, at) ==
    IF at > Len(breadcrumbs) THEN Null ELSE trim(breadcrumbs[at].text)

getCurrentBreadcrumb(breadcrumbs) ==
    CrumbAt(breadcrumbs,
            First(1, Len(breadcrumbs), LAMBDA i : IsStudentCrumb(trim(breadcrumbs[i].text))))

\* String.prototype.charCodeAt for the characters of the pages.
AsciiFrom32 == " !"
AsciiFrom35 == "#$%&'()*+,-./0123456789:;<=>?@ABCDEFGHIJKLMNOPQRSTUVWXYZ[\\]^_"
AsciiFrom97 == "abcdefghijklmnopqrstuvwxyz{|}~"

CodeIn(seq, c) == CHOOSE i \in 1..Len(seq) : Ch(seq, i) = c

charCodeAt ==
    [c \in {Ch(AsciiFrom32, i) : i \in 1..Len(AsciiFrom32)}
           \cup {Ch(AsciiFrom35, i) : i \in 1..Len(AsciiFrom35)}
           \cup {Ch(AsciiFrom97, i) : i \in 1..Len(AsciiFrom97)}
           \cup {"\t", "\n", "\r"} |->
        CASE c = "\t" -> 9
          [] c = "\n" -> 10
          [] c = "\r" -> 13
          [] \E i \in 1..Len(AsciiFrom32) : Ch(AsciiFrom32, i) = c -> 31 + CodeIn(AsciiFrom32, c)
          [] \E i \in 1..Len(AsciiFrom35) : Ch(AsciiFrom35, i) = c -> 34 + CodeIn(AsciiFrom35, c)
          [] OTHER -> 96 + CodeIn(AsciiFrom97, c)]

\* A 32-bit value held as two 16-bit halves.
Word(hi, lo) == [hi |-> hi, lo |-> lo]

\* The prefix of the container text that hasProfileChanged hashes.
HASH_PREFIX == 500

\* One round of simpleHash's loop: hash = ((hash << 5) - hash) + char;
\* hash = hash & hash, that is 31 * hash + char modulo 2^32.
HashRound(hash, char) ==
    LET lo == 31 * hash.lo + char
    IN  Word((31 * hash.hi + lo \div 65536) % 65536, lo % 65536)

\* The loop over content[i..j] from the value hash, the range taken in
\* halves; the guard on .lo only orders the evaluation, so that the left half
\* is a value before the right half starts from it.
RECURSIVE HashLoop(_, _, _, _)
HashLoop(content, i, j, hash) ==
    IF i > j THEN hash
    ELSE IF i = j THEN HashRound(hash, charCodeAt[Ch(content, i)])
    ELSE LET left == HashLoop(content, i, (i + j) \div 2, hash)
         IN  IF left.lo < 0 THEN left
             ELSE HashLoop(content, (i + j) \div 2 + 1, j, left)

\* The two halves read as a signed 32-bit integer.
ToInt32(h) == (IF h.hi >= 32768 THEN h.hi - 65536 ELSE h.hi) * 65536 + h.lo

simpleHash(content) == ToInt32(HashLoop(content, 1, Len(content), Word(0, 0)))

\* state.lastProfileHash: null, or a hash.
NoHash == [null |-> TRUE, value |-> 0]
HashOf(v) == [null |-> FALSE, value |-> v]

CACHE_DURATION == 10000
MAX_VALIDATION_ATTEMPTS == 10

\* timestamp: null
NullTime == -1

\* lastExtracted: { name: null, studentNumber: null, roomSpace: null,
\* timestamp: null }; fullName is the property validateStudentData adds.
AllNull == [name |-> Null, fullName |-> Null, studentNumber |-> Null,
            roomSpace |-> Null, timestamp |-> NullTime]

NoData == [fullName |-> Null, studentNumber |-> Null, roomSpace |-> Null]

\* The checks of validateStudentData of v2.2.
IsValidStudentData(data) ==
    /\ Truthy(data.fullName) /\ Truthy(data.studentNumber) /\ Truthy(data.roomSpace)
    /\ STUDENT_NUMBER_PATTERN_test(data.studentNumber)
    /\ RESIDENCE_PATTERN_test(data.roomSpace)
    /\ includes(data.fullName, ",")

\* A variant of validateStudentData that drops the cached record when the
\* candidate fails.
validateStudentDataEvicting(data, cache, time) ==
    IF IsValidStudentData(data)
    THEN [data |-> data, valid |-> TRUE,
          lastExtracted |-> [name |-> Null, fullName |-> data.fullName,
                             studentNumber |-> data.studentNumber,
                             roomSpace |-> data.roomSpace, timestamp |-> time]]
    ELSE [data |-> NoData, valid |-> FALSE, lastExtracted |-> AllNull]

\* validateStudentData: the returned record (valid: it is not null) and the
\* new state.lastExtracted. The spread { ...data, timestamp } carries fullName,
\* studentNumber and roomSpace; the stored object has no name property.
validateStudentData(data, cache, time) ==
    IF IsValidStudentData(data)
    THEN [data |-> data, valid |-> TRUE,
          lastExtracted |-> [name |-> Null, fullName |-> data.fullName,
                             studentNumber |-> data.studentNumber,
                             roomSpace |-> data.roomSpace, timestamp |-> time]]
    ELSE [data |-> NoData, valid |-> FALSE, lastExtracted |-> cache]

(***************************************************************************)
(* The host page                                                           *)
(***************************************************************************)
\* Two residents of the host system, each with a display name, an 8-digit
\* student number, a bedspace under a parent room, and the codes of the keys
\* on loan to them; the entry id of the profile, the parcels waiting for the
\* resident, and whether the profile page shows the keys.
ResidentA == [name |-> "Doe, Jane", shown |-> "Jane Doe", id |-> "11223344",
              parent |-> "UWP-BECK-204", room |-> "UWP-BECK-204a",
              keys |-> <<"AB12", "AB13", "AB12">>,
              entry |-> "1001", parcels |-> 1, keyTab |-> FALSE]
ResidentB == [name |-> "Roe, Rick", shown |-> "Rick Roe", id |-> "99887766",
              parent |-> "CLVN-349", room |-> "CLVN-349b",
              keys |-> <<"CD34", "CD35", "CD34">>,
              entry |-> "2002", parcels |-> 0, keyTab |-> TRUE]
Residents == {ResidentA, ResidentB}

Other(r) == IF r = ResidentA THEN ResidentB ELSE ResidentA

\* n copies of the string c.
RECURSIVE Rep(_, _)
Rep(c, n) ==
    IF n = 0 THEN ""
    ELSE LET h == Rep(c, n \div 2) IN h \o h \o (IF n % 2 = 1 THEN c ELSE "")

\* The state of the page and of the script.
VARIABLES
    crumbs,             \* the habitat-header-breadcrumb-item elements, in document order
    panel,              \* what the host shows in the active container
    panelText,          \* innerText of the active container
    now,                \* Date.now()
    lastExtracted,      \* state.lastExtracted
    lastRecordId,       \* state.lastRecordId (v3.0 Habitat)
    lastBreadcrumb,     \* state.lastBreadcrumb
    lastProfileHash,    \* state.lastProfileHash
    validationAttempts, \* state.validationAttempts
    timers,             \* pending timeouts: state.timers and the untracked retries
    buttons,            \* the buttons the script has injected, by element id
    call,               \* the latest generate* call and its result
    host,               \* the host's updates: how many, and any since the latest call;
                        \* what the latest execution of initialize's body read
    keyInput,           \* the arguments of a key-code extraction
    keyResult           \* its result

vars == <<crumbs, panel, panelText, now, lastExtracted, lastRecordId, lastBreadcrumb,
          lastProfileHash, validationAttempts, timers, buttons, call, host,
          keyInput, keyResult>>

(***************************************************************************)
(* The script's state after load (content.js 413-434, part_003 31-36)      *)
(***************************************************************************)
\* Pending timeouts: state.timers.init, state.timers.observer, and the
\* untracked setTimeout(initialize, ...) retries.
NoTimers == [init |-> FALSE, observer |-> FALSE, retries |-> 0]

\* The breadcrumb items of the host: a navigation item and, on a profile, the
\* item of the entry. The module attribute is given as the object it parses to.
NoModule == [parses |-> FALSE, dbObjectName |-> Null, caption |-> Null, recordId |-> Null]

Crumb(text, module) == [text |-> text, module |-> module]

DashboardCrumb ==
    Crumb(" Dashboard ", [parses |-> TRUE, dbObjectName |-> "Dashboard",
                          caption |-> "Dashboard", recordId |-> "0"])

NoProfileCrumbs == <<DashboardCrumb>>

\* The entry's item shows a caption: the "Last, First" name, or the name as
\* the resident writes it.
ProfileCrumbs(r, caption) ==
    <<DashboardCrumb,
      Crumb(" " \o caption \o " ", [parses |-> TRUE, dbObjectName |-> "Entry",
                                   caption |-> caption, recordId |-> r.entry])>>

\* The ids of the elements v2.2 injects: the buttons and the preview popup.
ButtonIds == {"package-log-btn-0", "package-log-btn-1", "package-log-master-btn",
              "lockout-log-btn", "package-label-btn"}

InjectedIds == ButtonIds \cup {"log-preview-popup"}

NoButtons == [b \in InjectedIds |-> "absent"]

\* The latest click's call of a generator: the action type, the result, the
\* time of the call, and how it relates to the call before it (repeat: the
\* host left the page alone in between; gap: the time between the two;
\* before: the student data of the earlier call). count: the clicks so far.
NoCall == [op |-> "none", success |-> FALSE, error |-> "", data |-> NoData,
           keyCodes |-> NullKeys, at |-> NullTime, chain |-> FALSE,
           consulted |-> FALSE, repeat |-> FALSE, gap |-> NullTime, before |-> NoData,
           count |-> 0]

\* A container whose text is given as a whole.
StaticPanel == [kind |-> "static", who |-> ResidentA]

NoKeyInput == [studentName |-> Null, studentID |-> Null, layout |-> "none"]
NoKeyResult == [by |-> "none", keys |-> NullKeys]

\* What an execution of initialize's body read: the view in the active
\* container and the hash of the container's text (run: there has been one).
NotSeen == [run |-> FALSE, hash |-> 0, view |-> StaticPanel]

\* The time the script is loaded: any Date.now() beyond CACHE_DURATION.
StartTime == 100000

ScriptLoaded ==
    /\ now = StartTime
    /\ lastExtracted = AllNull
    /\ lastRecordId = Null
    /\ lastBreadcrumb = Null
    /\ lastProfileHash = NoHash
    /\ validationAttempts = 0
    /\ buttons = NoButtons
    /\ call = NoCall
    /\ host = [updates |-> 0, sinceCall |-> FALSE, seen |-> NotSeen]

(***************************************************************************)
(* The active container of the host page                                   *)
(***************************************************************************)
\* The host fills the active container with a flat list of elements. A profile
\* page comes in stages: a placeholder, then the head of the Rez 360 section
\* (entry id and student number), then the room, the parcels with their Issue
\* buttons, and the keys.
El(tag, text) == [tag |-> tag, text |-> text]

\* The most Issue buttons on a page.
MaxIssue == 2

NumStr(n) == Ch(DigitSeq, n + 1)

IssueRow(n) == [i \in 1..n |-> El("button", "Issue")]

HeadElements(r) ==
    <<El("div", "EntryID: " \o r.entry), El("div", "Rez 360"),
      El("div", "Student Number " \o r.id)>>

PanelElements(view) ==
    CASE view.kind = "loading" -> <<El("div", "Please wait")>>
      [] view.kind = "partial" -> HeadElements(view.who)
      [] view.kind = "profile" ->
            HeadElements(view.who)
            \o <<El("div", "Room " \o view.who.parent \o "/" \o view.who.room)>>
            \o (IF view.who.parcels = 0 THEN <<>>
                ELSE <<El("span", NumStr(view.who.parcels)
                                  \o (IF view.who.parcels = 1 THEN " Parcel" ELSE " Parcels")),
                       El("button", "Reissue")>>
                     \o IssueRow(view.who.parcels))
            \o (IF view.who.keyTab
                THEN <<El("h3", "KEYS"), El("div", "Key Code: " \o view.who.keys[1])>>
                ELSE <<>>)
      [] OTHER -> <<>>

\* createIndividualButtons' filter: a host button whose lowercased text
\* includes "issue" and not "reissue"; its index in the filtered list.
IsIssueButton(el) ==
    /\ el.tag = "button"
    /\ indexOfFromCI(el.text, "issue", 1) # 0
    /\ indexOfFromCI(el.text, "reissue", 1) = 0

issueButtons(els) == SelectSeq(els, IsIssueButton)

IssueIndex(els, i) == Cardinality({j \in 1..(i - 1) : IsIssueButton(els[j])})

IndividualId(index) == "package-log-btn-" \o NumStr(index)

\* createMasterButton's anchor: the first span whose trimmed text matches
\* /^\d+\s+Parcel[s]?$/i (0: none).
ParcelWordAt(t, d, w) ==
    /\ d > 1 /\ w > d /\ LitAtCI(t, w, "Parcel")
    /\ w + 6 + (IF LitAtCI(t, w + 6, "s") THEN 1 ELSE 0) = Len(t) + 1

ParcelCountAfter(t, d) == ParcelWordAt(t, d, RunEnd(t, d, "s"))

ParcelCountTest(t) == ParcelCountAfter(t, RunEnd(t, 1, "d"))

parcelCountElement(els) ==
    FoundAt(els, First(1, Len(els),
                       LAMBDA i : els[i].tag = "span" /\ ParcelCountTest(trim(els[i].text))))

\* /Key Code|KEYS|LOANER/i
hasKeyCodes(text) ==
    \/ indexOfFromCI(text, "Key Code", 1) # 0
    \/ indexOfFromCI(text, "KEYS", 1) # 0
    \/ indexOfFromCI(text, "LOANER", 1) # 0

\* createLockoutButton's target: of the elements whose text has a key word and
\* is shorter than 100 characters, the first of the shortest (0: none).
IsCandidate(el) == hasKeyCodes(el.text) /\ Len(el.text) < 100

candidates(els) == {i \in 1..Len(els) : IsCandidate(els[i])}

shortestOf(els, found) ==
    IF found = {} THEN 0
    ELSE CHOOSE i \in found :
            /\ \A j \in found : Len(els[i].text) <= Len(els[j].text)
            /\ \A j \in found : j < i => Len(els[j].text) > Len(els[i].text)

bestTarget(els) == shortestOf(els, candidates(els))

\* Where the script's selectors lead on a list of host elements: for each
\* element the index of the Issue button it is (-1: it is none), the parcel
\* count element, the lockout target, and the number of Issue buttons.
Placement(els) ==
    [els    |-> els,
     issue  |-> [i \in 1..Len(els) |-> IF IsIssueButton(els[i]) THEN IssueIndex(els, i) ELSE -1],
     parcel |-> parcelCountElement(els),
     target |-> bestTarget(els),
     count  |-> Len(issueButtons(els))]

\* The text of an injected button: "Loading..." while disabled, "Copied!"
\* after a copy, its own text otherwise.
OriginalText(id, packageCount) ==
    CASE id = "package-log-master-btn" -> "Copy " \o NumStr(packageCount) \o " pkgs"
      [] id = "lockout-log-btn"        -> "Copy Lockout"
      [] id = "package-label-btn"      -> "Print Label"
      [] OTHER                         -> "Copy Log"

ButtonText(id, packageCount, injected) ==
    CASE injected[id] = "absent"  -> ""
      [] injected[id] = "loading" -> "Loading..."
      [] injected[id] = "copied"  -> "Copied!"
      [] OTHER                    -> OriginalText(id, packageCount)

\* The injected buttons that sit in or right after the i-th host element.
InjectedAt(placed, i, injected) ==
    (IF placed.issue[i] >= 0 /\ placed.issue[i] < MaxIssue
     THEN ButtonText(IndividualId(placed.issue[i]), placed.count, injected) ELSE "")
    \o (IF i = placed.parcel
        THEN ButtonText("package-log-master-btn", placed.count, injected) ELSE "")
    \o (IF i = placed.target
        THEN ButtonText("lockout-log-btn", placed.count, injected) ELSE "")

\* container.innerText: the host's elements and the buttons placed among
\* them, one element to a line. The label button and the preview popup are
\* outside the container.
RECURSIVE InnerTextFrom(_, _, _)
InnerTextFrom(placed, i, injected) ==
    IF i > Len(placed.els) THEN ""
    ELSE placed.els[i].text \o InjectedAt(placed, i, injected) \o "\n"
         \o InnerTextFrom(placed, i + 1, injected)

\* The views the host shows in the models, each with its placement.
PanelViews ==
    {[kind |-> "loading", who |-> ResidentA], [kind |-> "partial", who |-> ResidentA]}
    \cup {[kind |-> "profile", who |-> r] : r \in Residents}

Placed == [view \in PanelViews |-> Placement(PanelElements(view))]

innerText(view, injected) == InnerTextFrom(Placed[view], 1, injected)

(***************************************************************************)
(* SpecKeys: the key-code extractors on bounded pages                      *)
(***************************************************************************)
\* The most key entries in a resident's block, and the most tokens on a page
\* of tokens.
MaxKeys == 2
MaxTokens == 2

HeaderKinds == {"none", "title", "columns"}

HeaderText(h) ==
    CASE h = "none"    -> ""
      [] h = "title"   -> "Loaner Keys Report\n"
      [] h = "columns" -> "Entry Name Student Number Key\n"

KeyLineLabels == <<"Bedroom Key", "LOANER", "Floor Key">>

\* The first n key entries of resident r, one to a line.
RECURSIVE KeyLines(_, _)
KeyLines(r, n) ==
    IF n = 0 THEN ""
    ELSE KeyLines(r, n - 1)
         \o KeyLineLabels[((n - 1) % Len(KeyLineLabels)) + 1] \o ": "
         \o r.keys[((n - 1) % Len(r.keys)) + 1] \o "\n"

\* A resident's block of a report: the anchor (student number or shown name),
\* a gap (a space, or more than WINDOW characters), and n key entries.
BlockShapes == [anchor : {"id", "name"}, gap : {"near", "far"}, n : 0..MaxKeys]

BlockText(r, b) ==
    (IF b.anchor = "id" THEN r.id ELSE r.shown)
    \o (IF b.gap = "far" THEN Rep(".", WINDOW + 1) ELSE " ")
    \o (IF b.n = 0 THEN "\n" ELSE KeyLines(r, b.n))

\* A page of two blocks, resident A's and then resident B's.
ReportLayouts ==
    [kind : {"report"}, header : HeaderKinds, first : BlockShapes, second : BlockShapes]

ReportText(l) ==
    HeaderText(l.header) \o BlockText(ResidentA, l.first) \o BlockText(ResidentB, l.second)

\* A page of resident A: the student number and then labelled tokens.
Tokens == {"AB12", "CD34", "20aa130", "11223344", "A1", "JDOE@UW"}

TokenLabels == <<"Key Code", "LOANER", "Bedroom Key">>

TokenSeqs == UNION {[1..n -> Tokens] : n \in 0..MaxTokens}

RECURSIVE TokenLines(_, _)
TokenLines(toks, n) ==
    IF n = 0 THEN ""
    ELSE TokenLines(toks, n - 1)
         \o TokenLabels[((n - 1) % Len(TokenLabels)) + 1] \o ": " \o toks[n] \o "\n"

TokenLayouts == [kind : {"tokens"}, header : HeaderKinds, tokens : TokenSeqs]

TokenText(l) ==
    HeaderText(l.header) \o "Student Number " \o ResidentA.id \o "\n"
    \o TokenLines(l.tokens, Len(l.tokens))

\* A page of resident A with or without the report title and the column
\* headers, and with no key entry, as many as the threshold of v3.0 final, or
\* one more.
BusyCounts == {0, REPORT_MATCH_THRESHOLD, REPORT_MATCH_THRESHOLD + 1}

BusyLayouts == [kind : {"busy"}, title : BOOLEAN, columns : BOOLEAN, n : BusyCounts]

BusyText(l) ==
    (IF l.title THEN HeaderText("title") ELSE "")
    \o (IF l.columns THEN HeaderText("columns") ELSE "")
    \o ResidentA.id \o " " \o (IF l.n = 0 THEN "\n" ELSE KeyLines(ResidentA, l.n))

\* A report page of resident A without the student number: the name, as the
\* breadcrumb has it ("Last, First") or as the resident writes it, and then
\* the key entries.
NamedLayouts ==
    [kind : {"named"}, header : {"title", "columns"}, listed : BOOLEAN, n : 1..MaxKeys]

NamedText(l) ==
    HeaderText(l.header) \o (IF l.listed THEN ResidentA.name ELSE ResidentA.shown)
    \o " " \o KeyLines(ResidentA, l.n)

InitKeys ==
    /\ ScriptLoaded
    /\ crumbs = <<>>
    /\ panel = StaticPanel
    /\ timers = NoTimers
    /\ keyResult = NoKeyResult
    /\ \/ \E l \in ReportLayouts, r \in Residents :
            /\ panelText = ReportText(l)
            /\ keyInput = [studentName |-> r.name, studentID |-> r.id, layout |-> l]
       \/ \E l \in TokenLayouts :
            /\ panelText = TokenText(l)
            /\ keyInput = [studentName |-> ResidentA.name, studentID |-> ResidentA.id,
                           layout |-> l]
       \/ \E l \in BusyLayouts, r \in Residents :
            /\ panelText = BusyText(l)
            /\ keyInput = [studentName |-> r.name, studentID |-> r.id, layout |-> l]
       \/ \E l \in NamedLayouts :
            /\ panelText = NamedText(l)
            /\ keyInput = [studentName |-> ResidentA.name, studentID |-> ResidentA.id,
                           layout |-> l]

Extracted(by, keys) ==
    /\ keyResult.by = "none"
    /\ keyResult' = [by |-> by, keys |-> keys]
    /\ UNCHANGED <<crumbs, panel, panelText, now, lastExtracted, lastRecordId,
                   lastBreadcrumb, lastProfileHash, validationAttempts, timers, buttons,
                   call, host, keyInput>>

ExtractKeysV22 == Extracted("v2.2", extractKeyCodes(panelText))

ExtractKeysHabitat ==
    Extracted("habitat",
              extractKeyCodesHabitat(panelText, keyInput.studentName, keyInput.studentID))

ExtractKeysFinal == Extracted("final", extractKeyCodesFinal(panelText, keyInput.studentID))

ExtractKeysV31 == Extracted("v3.1", extractKeyCodesV31(panelText, keyInput.studentID))

NextKeys == ExtractKeysV22 \/ ExtractKeysHabitat \/ ExtractKeysFinal \/ ExtractKeysV31

SpecKeys == InitKeys /\ [][NextKeys]_vars

(***************************************************************************)
(* Properties of the key-code extractors                                   *)
(***************************************************************************)
Requested == CHOOSE r \in Residents : r.id = keyInput.studentID

ReturnedCodes == Range(keyResult.keys.codes)

\* A report of two blocks, each a student number followed by that resident's
\* key entries.
TwoIdBlocksReport ==
    /\ keyInput.layout.kind = "report"
    /\ keyInput.layout.header # "none"
    /\ keyInput.layout.first.anchor = "id"
    /\ keyInput.layout.second.anchor = "id"

\* C2: on a report of two blocks, each a student number followed by that
\* resident's key entries, the report-mode extractors of v3.0 Habitat and v3.0
\* final, called for one resident's number, never return a key code of the
\* other resident's block.
C2_NoForeignKey ==
    (TwoIdBlocksReport /\ keyResult.by \in {"habitat", "final"})
        => ReturnedCodes \cap Range(Other(Requested).keys) = {}

\* What each version takes for report mode, and what its scoped searches find.
ReportModeOf(by) ==
    CASE by = "habitat" -> isReportModeHabitat(panelText)
      [] by = "final"   -> isReportModeFinal(panelText)
      [] by = "v3.1"    -> isReportModeV31(panelText)
      [] OTHER          -> FALSE

ScopedMatchesOf(by) ==
    IF by = "habitat"
    THEN AllScopedEntriesFrom(panelText, 1, keyInput.studentID, KeyLabelsHabitat)
         \o AllScopedEntriesFrom(panelText, 1, simpleName(keyInput.studentName), KeyLabelsHabitat)
    ELSE AllScopedEntriesFrom(panelText, 1, keyInput.studentID, KeyLabelsFinal)

\* C3: in report mode with a student number at hand, when neither the
\* number-scoped nor the name-scoped search finds an entry, the result holds no
\* key (null or empty), whatever the unscoped candidates are.
C3_NoUnscopedFallback ==
    (/\ keyResult.by \in {"habitat", "final", "v3.1"}
     /\ ReportModeOf(keyResult.by)
     /\ Truthy(keyInput.studentID)
     /\ ScopedMatchesOf(keyResult.by) = <<>>)
        => keyResult.keys.codes = <<>>

\* A report holding key entries, none of them in reach of the requested
\* resident's number or name, and a null result.
C3_Witness ==
    /\ keyResult.by = "habitat"
    /\ isReportModeHabitat(panelText)
    /\ ScopedMatchesOf("habitat") = <<>>
    /\ AllKeyEntriesFrom(panelText, 1, KeyLabelsHabitat) # <<>>
    /\ keyResult.keys.null

\* C5: every key code an extractor returns is longer than two characters,
\* holds no lowercase character and no "@", differs from the resident's student
\* number, and appears once in the result.
C5_TokenFilter ==
    keyResult.by # "none" =>
        LET codes == keyResult.keys.codes
        IN  /\ \A i \in 1..Len(codes) :
                /\ Len(codes[i]) > 2
                /\ ~HasLowercase(codes[i])
                /\ ~includes(codes[i], "@")
                /\ codes[i] # keyInput.studentID
            /\ \A i, j \in 1..Len(codes) : codes[i] = codes[j] => i = j

\* The key labels of a version's pattern.
KeyLabelsOf(by) == IF by = "habitat" THEN KeyLabelsHabitat ELSE KeyLabelsFinal

\* C20: report mode is the disjunction of three signals: the report title,
\* the two column headers on one line, and more key entries on the page than
\* the threshold.
C20_ThreeSignals ==
    keyResult.by \in {"habitat", "final", "v3.1"} =>
        ReportModeOf(keyResult.by)
            = \/ HasReportTitle(panelText)
              \/ HasReportColumnsFrom(panelText, 1)
              \/ Len(AllKeyEntriesFrom(panelText, 1, KeyLabelsOf(keyResult.by)))
                    > REPORT_MATCH_THRESHOLD

\* What the searches scoped by the student number and by the name, as it was
\* extracted, find on the page.
IdScopedOf(by) == AllScopedEntriesFrom(panelText, 1, keyInput.studentID, KeyLabelsOf(by))

NameScopedOf(by) == AllScopedEntriesFrom(panelText, 1, keyInput.studentName, KeyLabelsOf(by))

\* C21: in report mode, when the search scoped by the student number finds
\* nothing and the extracted name ("Last, First") is followed within the window
\* by a key entry, extractKeyCodes returns the code of that entry.
C21_NameScopedSearch ==
    (/\ keyResult.by \in {"habitat", "final", "v3.1"}
     /\ ReportModeOf(keyResult.by)
     /\ Truthy(keyInput.studentID)
     /\ IdScopedOf(keyResult.by) = <<>>
     /\ NameScopedOf(keyResult.by) # <<>>)
        => NameScopedOf(keyResult.by)[1] \in ReturnedCodes

\* C28: in report mode, on a page with the requested resident's number right
\* before that resident's key entries, every one of these entries' codes that
\* passes the token filter is returned.
C28_AllScopedReturned ==
    (/\ keyResult.by \in {"habitat", "final", "v3.1"}
     /\ ReportModeOf(keyResult.by)
     /\ keyInput.layout.kind = "report"
     /\ keyInput.layout.first.anchor = "id"
     /\ keyInput.layout.first.gap = "near"
     /\ keyInput.studentID = ResidentA.id)
        => \A i \in 1..keyInput.layout.first.n :
               KeepsCode(ResidentA.keys[i], ResidentA.id)
                   => ResidentA.keys[i] \in ReturnedCodes

(***************************************************************************)
(* Profile pages for the record extraction                                 *)
(***************************************************************************)
\* A profile page of resident A as the host may render it. crumb: the entry's
\* breadcrumb item is missing, shows "Last, First", or shows the name as the
\* resident writes it. number: the digits after the "Student Number" label.
\* room: the room line. head: the page starts with the entry id and the
\* "Rez 360" heading. extra: another resident's room code before the profile
\* data, one in the activity list after it, or both. staff: the Pendo script with
\* the staff member's full_name is on the page.
CrumbShapes == {"none", "name", "shown"}
NumberShapes == {"none", "eight", "seven", "nine", "colon"}
RoomShapes == {"none", "slash", "lettered", "space", "bare"}
ExtraShapes == {"none", "before", "after", "both"}

RecordLayouts ==
    [crumb : CrumbShapes, number : NumberShapes, room : RoomShapes,
     head : BOOLEAN, extra : ExtraShapes, staff : BOOLEAN]

RecordCrumbs(shape) ==
    CASE shape = "name"  -> ProfileCrumbs(ResidentA, ResidentA.name)
      [] shape = "shown" -> ProfileCrumbs(ResidentA, ResidentA.shown)
      [] OTHER           -> NoProfileCrumbs

NumberLine(shape) ==
    CASE shape = "eight" -> "Student Number " \o ResidentA.id \o "\n"
      [] shape = "seven" -> "Student Number " \o SubSeq(ResidentA.id, 1, 7) \o "\n"
      [] shape = "nine"  -> "Student Number " \o ResidentA.id \o "5\n"
      [] shape = "colon" -> "Student Number: " \o ResidentA.id \o "\n"
      [] OTHER           -> ""

\* The bedspace under a lettered parent room (a suite).
SuiteBedspace == "V1-S5-101b"

RoomLine(shape) ==
    CASE shape = "slash"    -> "Room " \o ResidentA.parent \o "/" \o ResidentA.room \o "\n"
      [] shape = "lettered" -> "Room V1-S5-101a/" \o SuiteBedspace \o "\n"
      [] shape = "space"    -> "Room Space " \o ResidentA.room \o "\n"
      [] shape = "bare"     -> "Room Space " \o ResidentA.parent \o "\n"
      [] OTHER              -> ""

\* The bedspace the room line shows.
ShownBedspace(shape) ==
    CASE shape = "lettered"                 -> SuiteBedspace
      [] shape \in {"slash", "space"}       -> ResidentA.room
      [] OTHER                              -> Null

ExtraBefore == "CLVN-349b"
ExtraAfter == "MKV-7d"

PageText(number, room, head, extra) ==
    (IF extra \in {"before", "both"} THEN "Previous " \o ExtraBefore \o "\n" ELSE "")
    \o (IF head THEN "EntryID: " \o ResidentA.entry \o "\nRez 360\n" ELSE "")
    \o NumberLine(number) \o RoomLine(room)
    \o (IF extra \in {"after", "both"} THEN "Activity\nForwarded " \o ExtraAfter \o "\n" ELSE "")

RecordText(l) == PageText(l.number, l.room, l.head, l.extra)

RecordTexts ==
    {PageText(n, r, h, e) : n \in NumberShapes, r \in RoomShapes, h \in BOOLEAN,
                            e \in ExtraShapes}

\* The script elements of the page: the Pendo snippet, when it is there. The
\* snippet quotes the name with backquotes; TLA+ strings cannot hold that
\* character, and Quote stands for it.
Quote == "'"
StaffName == "Baker, Alex"
PendoScript == "pendo.initialize({visitor:{full_name: " \o Quote \o StaffName \o Quote \o "}})"
RecordScripts(staff) ==
    IF staff THEN <<"var a = 1;", PendoScript>> ELSE <<"var a = 1;">>

(***************************************************************************)
(* v2.2 (content.js): what the script reads from the container's text      *)
(***************************************************************************)
\* The states of the buttons in the container of a view: each button that
\* has a place there is absent, loading, ready or copied.
PlaceableFor(placed) ==
    {IndividualId(i) : i \in 0..(placed.count - 1)}
    \cup (IF placed.count >= 2 /\ placed.parcel # 0 THEN {"package-log-master-btn"} ELSE {})
    \cup (IF placed.target # 0 THEN {"lockout-log-btn"} ELSE {})

PlaceableIn(view) == PlaceableFor(Placed[view])

StatesOver(placeable) ==
    {[id \in InjectedIds |-> IF id \in placeable THEN f[id] ELSE "absent"] :
        f \in [placeable -> {"absent", "loading", "ready", "copied"}]}

ContainerStates(view) == StatesOver(PlaceableIn(view))

\* A document holds, in this order, text outside the tab panels, the active
\* habitat-layout-tab-panel and the .ui-tabs-panel that is not hidden; each of
\* the three is absent, holds a record, or a record and a key entry.
Fills == {"absent", "record", "keys"}

ScopeDocs == [aside : Fills, habitat : Fills, uiTab : Fills]

\* The outside text shows a third record.
AsideRecord == [id |-> "55667788", room |-> "MKV-7d", keys |-> <<"EF56">>]

RegionText(r, fill) ==
    IF fill = "absent" THEN ""
    ELSE "Student Number " \o r.id \o "\nRoom Space " \o r.room \o "\n"
         \o (IF fill = "keys" THEN "LOANER: " \o r.keys[1] \o "\n" ELSE "")

\* element.innerText of the body and of the two panels.
innerTextOf(doc, scope) ==
    CASE scope = "habitat" -> RegionText(ResidentA, doc.habitat)
      [] scope = "uiTab"   -> RegionText(ResidentB, doc.uiTab)
      [] OTHER             -> RegionText(AsideRecord, doc.aside)
                              \o RegionText(ResidentA, doc.habitat)
                              \o RegionText(ResidentB, doc.uiTab)

ScopeTexts == {innerTextOf(doc, scope) : doc \in ScopeDocs, scope \in {"habitat", "uiTab", "body"}}

ContainerTexts ==
    UNION {{innerText(view, j) : j \in ContainerStates(view)} : view \in PanelViews}
    \cup RecordTexts \cup ScopeTexts

\* The functions of the container's text alone: the hash of its first
\* HASH_PREFIX characters, the two inclusion tests, the student number and the
\* room of getStudentDataFromRez360 (on the text cut at "EntryID:" when it is
\* there), and the key codes.
Scan(text) ==
    LET entryIdIndex  == indexOf(text, "EntryID:")
        containerText == IF entryIdIndex # 0 THEN substringFrom(text, entryIdIndex) ELSE text
    IN  [hash          |-> simpleHash(SubSeq(text, 1, IF Len(text) < HASH_PREFIX
                                                      THEN Len(text) ELSE HASH_PREFIX)),
         hasEntryId    |-> includes(text, "EntryID:"),
         hasKeyCodes   |-> hasKeyCodes(text),
         studentNumber |-> StudentNumberFrom(containerText, 1),
         roomSpace     |-> extractBedspace(containerText),
         keyCodes      |-> extractKeyCodes(text)]

\* Scan on the texts of the views, evaluated once.
Scanned == [text \in ContainerTexts |-> Scan(text)]

ScanOf(text) == Scanned[text]

\* hasProfileChanged: the answer and the new state.lastProfileHash. A mismatch
\* returns true and leaves the stored hash as it is.
hashChanged(currentHash, lastHash) ==
    IF ~lastHash.null /\ lastHash # currentHash
    THEN [changed |-> TRUE, lastProfileHash |-> lastHash]
    ELSE [changed |-> FALSE, lastProfileHash |-> currentHash]

hasProfileChanged(containerText, lastHash) ==
    hashChanged(HashOf(ScanOf(containerText).hash), lastHash)

\* getStudentDataFromRez360 of v2.2: the text is cut at "EntryID:" when it is
\* there; the name comes from the breadcrumb, the number and the room from the
\* panel. chain: the call went through the extraction strategies.
Extraction(validated) ==
    [data |-> validated.data, valid |-> validated.valid,
     lastExtracted |-> validated.lastExtracted, chain |-> TRUE]

studentDataOf(fullName, scan) ==
    [fullName |-> fullName, studentNumber |-> scan.studentNumber, roomSpace |-> scan.roomSpace]

\* A variant that hands back the stored record for the breadcrumb's resident
\* without going through the strategies, whatever the record's age.
getStudentDataFromCache(breadcrumbs, text, cache, time) ==
    IF Truthy(cache.fullName) /\ cache.fullName = getCurrentBreadcrumb(breadcrumbs)
    THEN [data |-> [fullName |-> cache.fullName, studentNumber |-> cache.studentNumber,
                    roomSpace |-> cache.roomSpace],
          valid |-> TRUE, lastExtracted |-> cache, chain |-> FALSE]
    ELSE Extraction(validateStudentData(
             studentDataOf(getCurrentBreadcrumb(breadcrumbs), ScanOf(text)), cache, time))

getStudentDataFromRez360(breadcrumbs, text, cache, time) ==
    Extraction(validateStudentData(
        studentDataOf(getCurrentBreadcrumb(breadcrumbs), ScanOf(text)), cache, time))

(***************************************************************************)
(* v2.2 (content.js): the three generators                                 *)
(***************************************************************************)
\* A generator's result: success, the error message, the student data the
\* call obtained (fullName, studentNumber, roomSpace: the data of the entry
\* when the call succeeds), the key codes of a lockout entry, and
\* state.lastExtracted after the call. chain: getStudentDataFromRez360 went
\* through the extraction strategies; consulted: the cached record was
\* compared with the extracted one.
Failed(message, data, chain, consulted, cache) ==
    [success |-> FALSE, error |-> message, data |-> data, keyCodes |-> NullKeys,
     chain |-> chain, consulted |-> consulted, lastExtracted |-> cache]

\* The part the three generators share: breadcrumb, extraction, the
\* comparison of the extracted name with the breadcrumb, and the cache check.
\* The cache check reads state.lastExtracted after getStudentDataFromRez360
\* has written it.
checkStudentData(currentBreadcrumb, studentData, cache, time) ==
    LET stored      == studentData.lastExtracted
        cacheAge    == time - (IF stored.timestamp = NullTime THEN 0 ELSE stored.timestamp)
        consulted   == Truthy(stored.name) /\ cacheAge < CACHE_DURATION
        cacheValid  == /\ stored.name = studentData.data.fullName
                       /\ stored.studentNumber = studentData.data.studentNumber
                       /\ stored.roomSpace = studentData.data.roomSpace
    IN  IF ~Truthy(currentBreadcrumb)
        THEN Failed("No student profile detected", NoData, FALSE, FALSE, cache)
        ELSE IF ~studentData.valid
        THEN Failed("Data extraction failed. Check console for details.", NoData,
                    studentData.chain, FALSE, stored)
        ELSE IF studentData.data.fullName # currentBreadcrumb
        THEN Failed("Profile data mismatch. Wait for page to load fully.",
                    studentData.data, studentData.chain, FALSE, stored)
        ELSE IF consulted /\ ~cacheValid
        THEN Failed("Stale data detected. Wait 2-3 seconds and retry.",
                    studentData.data, studentData.chain, TRUE, stored)
        ELSE [success |-> TRUE, error |-> "", data |-> studentData.data,
              keyCodes |-> NullKeys, chain |-> studentData.chain,
              consulted |-> consulted, lastExtracted |-> stored]

checkedStudentData(breadcrumbs, text, cache, time) ==
    checkStudentData(getCurrentBreadcrumb(breadcrumbs),
                     getStudentDataFromRez360(breadcrumbs, text, cache, time), cache, time)

generateLogEntry(breadcrumbs, text, cache, time) ==
    checkedStudentData(breadcrumbs, text, cache, time)

\* The lockout entry for a checked record and the result of extractKeyCodes.
lockoutEntry(checked, keyCodes) ==
    IF ~checked.success THEN checked
    ELSE IF keyCodes.null \/ Len(keyCodes.codes) = 0
    THEN Failed("No key codes found on this page", checked.data, checked.chain,
                checked.consulted, checked.lastExtracted)
    ELSE [success |-> TRUE, error |-> "", data |-> checked.data,
          keyCodes |-> keyCodes, chain |-> checked.chain,
          consulted |-> checked.consulted, lastExtracted |-> checked.lastExtracted]

generateLockoutEntry(breadcrumbs, text, cache, time) ==
    lockoutEntry(checkedStudentData(breadcrumbs, text, cache, time), ScanOf(text).keyCodes)

generatePackageLabel(breadcrumbs, text, cache, time) ==
    checkedStudentData(breadcrumbs, text, cache, time)

\* handleButtonClick's dispatch on the action type of the button.
ActionType(id) ==
    CASE id = "lockout-log-btn"   -> "lockout"
      [] id = "package-label-btn" -> "label"
      [] OTHER                    -> "package"

generate(actionType, breadcrumbs, text, cache, time) ==
    CASE actionType = "lockout" -> generateLockoutEntry(breadcrumbs, text, cache, time)
      [] actionType = "label"   -> generatePackageLabel(breadcrumbs, text, cache, time)
      [] OTHER                  -> generateLogEntry(breadcrumbs, text, cache, time)

(***************************************************************************)
(* v2.2 (content.js): buttons                                              *)
(***************************************************************************)
\* A new button is disabled and reads "Loading..."; a button that exists is
\* left as it is.
Created(injected, id) ==
    IF injected[id] = "absent" THEN [injected EXCEPT ![id] = "loading"] ELSE injected

RECURSIVE createIndividualButtonsFrom(_, _, _)
createIndividualButtonsFrom(injected, index, count) ==
    IF index >= count THEN injected
    ELSE createIndividualButtonsFrom(Created(injected, IndividualId(index)), index + 1, count)

createIndividualButtons(placed, injected) ==
    createIndividualButtonsFrom(injected, 0, placed.count)

createMasterButton(placed, injected) ==
    IF placed.parcel = 0 THEN injected
    ELSE Created(injected, "package-log-master-btn")

createLockoutButton(placed, text, injected) ==
    IF ~ScanOf(text).hasKeyCodes \/ placed.target = 0 THEN injected
    ELSE Created(injected, "lockout-log-btn")

\* The breadcrumb area is the anchor of the label button when nothing else
\* is; initialize calls createLogButtons on a page with a breadcrumb only.
createPackageLabelButton(injected) == Created(injected, "package-label-btn")

afterMaster(placed, individual) ==
    IF placed.count >= 2 THEN createMasterButton(placed, individual) ELSE individual

afterLockout(view, placed, master) ==
    createLockoutButton(placed, innerText(view, master), master)

createLogButtonsOn(view, placed, injected) ==
    createPackageLabelButton(
        afterLockout(view, placed,
                     afterMaster(placed, createIndividualButtons(placed, injected))))

createLogButtons(view, injected) == createLogButtonsOn(view, Placed[view], injected)

\* clearOldButtons' removals.
removeButtons(injected) ==
    [id \in DOMAIN injected |-> IF id \in ButtonIds THEN "absent" ELSE injected[id]]

(***************************************************************************)
(* Spec: v2.2 (content.js) on a page that the host keeps updating          *)
(***************************************************************************)
\* The host updates the page MaxHostUpdates times; Date.now() advances by
\* TickMs, MaxTicks times; the user clicks MaxClicks times;
\* validationAttempts is followed up to MaxAttempts, and MaxRetries retries
\* of initialize are pending at a time.
MaxHostUpdates == 1
TickMs == 5000
MaxTicks == 2
MaxClicks == 2
MaxAttempts == 11
MaxRetries == 1

CrumbStates == {NoProfileCrumbs} \cup {ProfileCrumbs(r, r.name) : r \in Residents}

\* The script is loaded into a page without a profile, or into a profile that
\* is loading or complete; loading ends with a call of initialize.
Init ==
    /\ ScriptLoaded
    /\ \/ crumbs = NoProfileCrumbs /\ panel = [kind |-> "loading", who |-> ResidentA]
       \/ /\ crumbs = ProfileCrumbs(ResidentA, ResidentA.name)
          /\ panel \in {[kind |-> "loading", who |-> ResidentA],
                        [kind |-> "profile", who |-> ResidentA]}
    /\ panelText = innerText(panel, NoButtons)
    /\ timers = [NoTimers EXCEPT !.init = TRUE]
    /\ keyInput = NoKeyInput
    /\ keyResult = NoKeyResult

\* The MutationObserver's callback runs after each change of the children of
\* an element below document.body: it sets state.timers.observer anew.
Observed(t) == [t EXCEPT !.observer = TRUE]

\* The buttons the script has put into the active container.
InContainer == {IndividualId(i) : i \in 0..(MaxIssue - 1)}
               \cup {"package-log-master-btn", "lockout-log-btn"}

\* The host replaces the breadcrumb items.
HostUpdatesBreadcrumb ==
    /\ host.updates < MaxHostUpdates
    /\ \E c \in CrumbStates : c # crumbs /\ crumbs' = c
    /\ timers' = Observed(timers)
    /\ host' = [host EXCEPT !.updates = @ + 1, !.sinceCall = TRUE]
    /\ UNCHANGED <<panel, panelText, now, lastExtracted, lastRecordId, lastBreadcrumb,
                   lastProfileHash, validationAttempts, buttons, call, keyInput, keyResult>>

\* The host replaces the content of the active container, and with it the
\* buttons that were placed there.
HostUpdatesPanel ==
    /\ host.updates < MaxHostUpdates
    /\ \E v \in PanelViews : v # panel /\ panel' = v
    /\ buttons' = [id \in DOMAIN buttons |-> IF id \in InContainer THEN "absent" ELSE buttons[id]]
    /\ panelText' = innerText(panel', buttons')
    /\ timers' = Observed(timers)
    /\ host' = [host EXCEPT !.updates = @ + 1, !.sinceCall = TRUE]
    /\ UNCHANGED <<crumbs, now, lastExtracted, lastRecordId, lastBreadcrumb,
                   lastProfileHash, validationAttempts, call, keyInput, keyResult>>

\* Date.now() is read by the generators alone: the clock is advanced between
\* the first click and the last.
Tick ==
    /\ call.count > 0 /\ call.count < MaxClicks
    /\ now < StartTime + MaxTicks * TickMs
    /\ now' = now + TickMs
    /\ UNCHANGED <<crumbs, panel, panelText, lastExtracted, lastRecordId, lastBreadcrumb,
                   lastProfileHash, validationAttempts, timers, buttons, call, host,
                   keyInput, keyResult>>

\* state.timers.observer fires and a retry fires: initialize() clears
\* state.timers.init and sets it anew.
ObserverTimerFires ==
    /\ timers.observer
    /\ timers' = [timers EXCEPT !.observer = FALSE, !.init = TRUE]
    /\ UNCHANGED <<crumbs, panel, panelText, now, lastExtracted, lastRecordId,
                   lastBreadcrumb, lastProfileHash, validationAttempts, buttons, call,
                   host, keyInput, keyResult>>

RetryTimerFires ==
    /\ timers.retries > 0
    /\ timers' = [timers EXCEPT !.retries = @ - 1, !.init = TRUE]
    /\ UNCHANGED <<crumbs, panel, panelText, now, lastExtracted, lastRecordId,
                   lastBreadcrumb, lastProfileHash, validationAttempts, buttons, call,
                   host, keyInput, keyResult>>

\* The body of initialize, run when state.timers.init fires: the state it
\* leaves. A change of the breadcrumb or of the content hash clears the buttons
\* and the cache; without a breadcrumb the run ends; without "EntryID:" it
\* counts an attempt and, below MAX_VALIDATION_ATTEMPTS, asks for a retry and
\* ends; otherwise it creates the buttons.
\* A variant that asks for a retry however many attempts have been counted.
shouldRetryAlways(currentBreadcrumb, hasEntryId, attempts) ==
    Truthy(currentBreadcrumb) /\ ~hasEntryId

\* The retry of initialize: on a profile whose container does not hold
\* "EntryID:", while the attempts counted stay below MAX_VALIDATION_ATTEMPTS.
shouldRetry(currentBreadcrumb, hasEntryId, attempts) ==
    Truthy(currentBreadcrumb) /\ ~hasEntryId /\ attempts < MAX_VALIDATION_ATTEMPTS

initializeRun(injected, cleared, changed, cache, breadcrumb, currentBreadcrumb, lastHash, counted, hasEntryId, created) ==
    LET retry == shouldRetry(currentBreadcrumb, hasEntryId, counted + 1)
    IN  [lastExtracted      |-> IF changed THEN AllNull ELSE cache,
         lastBreadcrumb     |-> IF changed THEN currentBreadcrumb ELSE breadcrumb,
         lastProfileHash    |-> IF changed THEN NoHash ELSE lastHash,
         validationAttempts |-> IF ~Truthy(currentBreadcrumb) THEN counted
                                ELSE IF hasEntryId THEN 0 ELSE counted + 1,
         retry              |-> retry,
         buttons            |-> IF Truthy(currentBreadcrumb) /\ ~retry
                                THEN created ELSE cleared,
         mutated            |-> \/ cleared # injected
                                \/ /\ Truthy(currentBreadcrumb) /\ ~retry
                                   /\ created # cleared]

\* The run once clearOldButtons has or has not been called.
initializeCleared(view, injected, cleared, changed, cache, breadcrumb, currentBreadcrumb, lastHash, attempts) ==
    initializeRun(injected, cleared, changed, cache, breadcrumb, currentBreadcrumb,
                  lastHash, IF changed THEN 0 ELSE attempts,
                  ScanOf(innerText(view, cleared)).hasEntryId,
                  createLogButtons(view, cleared))

\* The run once the breadcrumb and the content hash have been read.
initializeChanged(view, injected, changed, cache, breadcrumb, currentBreadcrumb, lastHash, attempts) ==
    initializeCleared(view, injected, IF changed THEN removeButtons(injected) ELSE injected,
                      changed, cache, breadcrumb, currentBreadcrumb, lastHash, attempts)

initializeRead(view, injected, cache, breadcrumb, currentBreadcrumb, hashed, attempts) ==
    initializeChanged(view, injected, currentBreadcrumb # breadcrumb \/ hashed.changed,
                      cache, breadcrumb, currentBreadcrumb, hashed.lastProfileHash, attempts)

initialize(breadcrumbs, view, injected, cache, breadcrumb, hash, attempts) ==
    initializeRead(view, injected, cache, breadcrumb, getCurrentBreadcrumb(breadcrumbs),
                   hasProfileChanged(innerText(view, injected), hash), attempts)

InitTimerFires ==
    /\ timers.init
    /\ \E run \in {initialize(crumbs, panel, buttons, lastExtracted, lastBreadcrumb,
                              lastProfileHash, validationAttempts)} :
          /\ run.validationAttempts <= MaxAttempts
          /\ run.retry => timers.retries < MaxRetries
          /\ lastExtracted' = run.lastExtracted
          /\ lastBreadcrumb' = run.lastBreadcrumb
          /\ lastProfileHash' = run.lastProfileHash
          /\ validationAttempts' = run.validationAttempts
          /\ buttons' = run.buttons
          /\ panelText' = innerText(panel, run.buttons)
          /\ timers' = [init     |-> FALSE,
                        observer |-> timers.observer \/ run.mutated,
                        retries  |-> IF run.retry THEN timers.retries + 1
                                     ELSE timers.retries]
    /\ host' = [host EXCEPT !.seen = [run |-> TRUE, hash |-> ScanOf(panelText).hash,
                                       view |-> panel]]
    /\ UNCHANGED <<crumbs, panel, now, lastRecordId, call, keyInput, keyResult>>

\* enableButtonAfterDelay's timeout, for a button that is still in the page.
EnableButton(b) ==
    /\ buttons[b] = "loading"
    /\ buttons' = [buttons EXCEPT ![b] = "ready"]
    /\ panelText' = innerText(panel, buttons')
    /\ timers' = Observed(timers)
    /\ UNCHANGED <<crumbs, panel, now, lastExtracted, lastRecordId, lastBreadcrumb,
                   lastProfileHash, validationAttempts, call, host, keyInput, keyResult>>

\* handleButtonClick on an enabled button: the generator of the button's
\* action type runs on the page as it is; when it succeeds and the clipboard
\* takes the entry, the button reads "Copied!" and the preview is shown.
Click(b) ==
    /\ buttons[b] \in {"ready", "copied"}
    /\ call.count < MaxClicks
    /\ \E result \in {generate(ActionType(b), crumbs, panelText, lastExtracted, now)} :
           /\ lastExtracted' = result.lastExtracted
           /\ call' = [op        |-> ActionType(b),
                       success   |-> result.success,
                       error     |-> result.error,
                       data      |-> result.data,
                       keyCodes  |-> result.keyCodes,
                       at        |-> now,
                       chain     |-> result.chain,
                       consulted |-> result.consulted,
                       repeat    |-> call.op # "none" /\ ~host.sinceCall,
                       gap       |-> IF call.op = "none" THEN NullTime ELSE now - call.at,
                       before    |-> call.data,
                       count     |-> call.count + 1]
           /\ \E copied \in BOOLEAN :
                IF result.success /\ copied
                THEN /\ buttons' = [buttons EXCEPT ![b] = "copied",
                                                   !["log-preview-popup"] = "shown"]
                     /\ panelText' = innerText(panel, buttons')
                     /\ timers' = Observed(timers)
                ELSE UNCHANGED <<buttons, panelText, timers>>
    /\ host' = [host EXCEPT !.sinceCall = FALSE]
    /\ UNCHANGED <<crumbs, panel, now, lastRecordId, lastBreadcrumb, lastProfileHash,
                   validationAttempts, keyInput, keyResult>>

\* The timeout that puts a button's own text back after "Copied!".
RestoreButton(b) ==
    /\ buttons[b] = "copied"
    /\ buttons' = [buttons EXCEPT ![b] = "ready"]
    /\ panelText' = innerText(panel, buttons')
    /\ timers' = Observed(timers)
    /\ UNCHANGED <<crumbs, panel, now, lastExtracted, lastRecordId, lastBreadcrumb,
                   lastProfileHash, validationAttempts, call, host, keyInput, keyResult>>

\* showPreview's timeouts remove the popup.
RemovePreview ==
    /\ buttons["log-preview-popup"] = "shown"
    /\ buttons' = [buttons EXCEPT !["log-preview-popup"] = "absent"]
    /\ timers' = Observed(timers)
    /\ UNCHANGED <<crumbs, panel, panelText, now, lastExtracted, lastRecordId,
                   lastBreadcrumb, lastProfileHash, validationAttempts, call, host,
                   keyInput, keyResult>>

Next ==
    \/ HostUpdatesBreadcrumb
    \/ HostUpdatesPanel
    \/ Tick
    \/ ObserverTimerFires
    \/ RetryTimerFires
    \/ InitTimerFires
    \/ \E b \in ButtonIds : EnableButton(b)
    \/ \E b \in ButtonIds : Click(b)
    \/ \E b \in ButtonIds : RestoreButton(b)
    \/ RemovePreview

Spec == Init /\ [][Next]_vars

(***************************************************************************)
(* Properties of Spec                                                      *)
(***************************************************************************)
\* The record of a resident of the host system.
RecordOf(r) == [fullName |-> r.name, studentNumber |-> r.id, roomSpace |-> r.room]

\* C1: a successful result of a generator carries the fullName, studentNumber
\* and roomSpace of one and the same resident, however the host's updates of
\* the breadcrumb and of the panel interleave with the clicks.
C1_SameResident ==
    call.success => \E r \in Residents : call.data = RecordOf(r)

\* The step is a call of a generator.
Called == call'.count = call.count + 1

\* C6: a second call on the unchanged page within CACHE_DURATION of the first
\* returns a record equal by value and does not go through the extraction
\* strategies again.
C6_ServedFromCache ==
    (call.repeat /\ call.gap < CACHE_DURATION)
        => (call.data = call.before /\ ~call.chain)

\* C7: a call compares the stored record with the extracted one only when the
\* stored record has the name of the breadcrumb's resident and is younger than
\* CACHE_DURATION; a call on the unchanged page CACHE_DURATION or more after
\* the one before goes through the extraction strategies again.
C7_CacheUse ==
    [][Called =>
          /\ call'.consulted =>
                /\ lastExtracted'.name = call'.data.fullName
                /\ now - lastExtracted'.timestamp < CACHE_DURATION
          /\ (call'.repeat /\ call'.gap >= CACHE_DURATION /\ call'.before.fullName # Null)
                => call'.chain]_vars

C7_Witness ==
    /\ call.repeat /\ call.gap >= CACHE_DURATION /\ call.before.fullName # Null
    /\ call.chain /\ call.success /\ call.data = call.before

\* C8: a call whose candidate record fails validation gets no record and
\* leaves state.lastExtracted, fields and timestamp, as it was.
ExtractionFailed == "Data extraction failed. Check console for details."

C8_FailedValidationKeepsCache ==
    [][(Called /\ call'.error = ExtractionFailed)
          => (call'.data = NoData /\ lastExtracted' = lastExtracted)]_vars

C8_Witness ==
    /\ call.error = ExtractionFailed
    /\ call.before.fullName # Null
    /\ lastExtracted.fullName = call.before.fullName
    /\ lastExtracted.timestamp # NullTime

\* C10: the run of initialize that brings validationAttempts to
\* MAX_VALIDATION_ATTEMPTS resets state.lastExtracted.
C10_ResetAtMax ==
    [][(validationAttempts' >= MAX_VALIDATION_ATTEMPTS /\ validationAttempts' # validationAttempts)
          => lastExtracted' = AllNull]_vars

C23_CacheNameSet ==
    /\ lastExtracted.timestamp # NullTime =>
          (Truthy(lastExtracted.name) /\ lastExtracted.name = lastExtracted.fullName)
    /\ (call.repeat /\ call.gap < CACHE_DURATION /\ call.before.fullName # Null)
          => call.consulted

\* The container's text once every injected button shows its own label.
EnabledText ==
    innerText(panel, [id \in DOMAIN buttons |->
                         IF buttons[id] \in {"loading", "copied"} THEN "ready"
                         ELSE buttons[id]])

StoredWhenEnabled == lastProfileHash = HashOf(ScanOf(EnabledText).hash)

\* C24: when the stored content hash is the one of the page as it is but for
\* the labels of the injected buttons, and the breadcrumb is the stored one, an
\* execution of initialize's body finds no profile change: the script's own
\* writes do not set off clearOldButtons and createLogButtons again.
C24_OwnWritesKeepHash ==
    [][(/\ timers.init /\ ~timers'.init
        /\ getCurrentBreadcrumb(crumbs) = lastBreadcrumb
        /\ StoredWhenEnabled)
          => ~hasProfileChanged(panelText, lastProfileHash).changed]_vars

\* C25: when the hash of the container's text differs from the one the
\* execution of initialize's body before this one computed, the host having
\* replaced the content in between and the breadcrumb being the stored one,
\* this execution reports a profile change and clears the cache.
C25_ChangeReported ==
    [][(/\ timers.init /\ ~timers'.init
        /\ host.seen.run
        /\ getCurrentBreadcrumb(crumbs) = lastBreadcrumb
        /\ panel # host.seen.view
        /\ ScanOf(panelText).hash # host.seen.hash)
          => /\ hasProfileChanged(panelText, lastProfileHash).changed
             /\ lastProfileHash'.null
             /\ lastExtracted' = AllNull]_vars

\* C29: state.validationAttempts stays within 0..MAX_VALIDATION_ATTEMPTS,
\* whatever runs of initialize the page has led to.
C29_AttemptsInRange == validationAttempts \in 0..MAX_VALIDATION_ATTEMPTS

(***************************************************************************)
(* Staff name and initials                                                 *)
(***************************************************************************)
\* /full_name:\s*`([^`]+)`/ on a script's text, from position p: the capture,
\* or Null. b: the position after the whitespace; e: the closing quote.
RECURSIVE FullNameFrom(_, _)
FullNameQuoted(s, at, b, e) ==
    IF at = 0 THEN Null
    ELSE IF b <= Len(s) /\ Ch(s, b) = Quote /\ e > b + 1 /\ e <= Len(s)
    THEN SubSeq(s, b + 1, e - 1)
    ELSE FullNameFrom(s, at + 1)

FullNameAfter(s, at, b) ==
    FullNameQuoted(s, at, b, First(b + 1, Len(s), LAMBDA i : Ch(s, i) = Quote))

FullNameAt(s, at) == FullNameAfter(s, at, RunEnd(s, at + 10, "s"))

FullNameFrom(s, p) == FullNameAt(s, indexOfFrom(s, "full_name:", p))

StaffNameIn(scripts, at) ==
    IF at > Len(scripts) THEN Null ELSE FullNameFrom(scripts[at], 1)

\* getStaffName of v2.2 and v3.0 final: the first script with a match.
getStaffName(scripts) ==
    StaffNameIn(scripts,
                First(1, Len(scripts), LAMBDA i : Truthy(FullNameFrom(scripts[i], 1))))

\* getStaffName of v3.0 Habitat looks at the scripts that hold "pendo.initialize".
getStaffNameHabitat(scripts) ==
    StaffNameIn(scripts,
                First(1, Len(scripts),
                      LAMBDA i : /\ includes(scripts[i], "pendo.initialize")
                                 /\ Truthy(FullNameFrom(scripts[i], 1))))

UpperOf == [c \in Lower |-> Ch(UpperSeq, CHOOSE i \in 1..Len(LowerSeq) : Ch(LowerSeq, i) = c)]

toUpperCase(c) == IF c \in Lower THEN UpperOf[c] ELSE c

\* name.split(/\s+/).filter(n => n.length > 0).map(n => n[0].toUpperCase()).join('')
\* from position p: the first characters of the words.
RECURSIVE WordInitialsFrom(_, _)
WordInitialsFrom(s, p) ==
    IF p > Len(s) THEN ""
    ELSE (IF Ch(s, p) \notin WhiteSpace /\ (p = 1 \/ Ch(s, p - 1) \in WhiteSpace)
          THEN toUpperCase(Ch(s, p)) ELSE "")
         \o WordInitialsFrom(s, p + 1)

WordInitials(s) == WordInitialsFrom(s, 1)

\* Every character that is not a letter or whitespace removed.
RECURSIVE LettersFrom(_, _)
LettersFrom(s, p) ==
    IF p > Len(s) THEN ""
    ELSE (IF Ch(s, p) \in Letter \cup WhiteSpace THEN Ch(s, p) ELSE "")
         \o LettersFrom(s, p + 1)

\* The default of the destructuring [lastName, firstName = ''].
SecondOf(parts) == IF Len(parts) >= 2 THEN trim(parts[2]) ELSE ""

CommaInitials(parts) == WordInitials(SecondOf(parts)) \o "." \o WordInitials(trim(parts[1]))

\* The fallback of v2.2 for a name without a comma, on its word initials.
PlainInitials(initials) ==
    IF Len(initials) >= 2
    THEN SubSeq(initials, 1, Len(initials) - 1) \o "." \o Ch(initials, Len(initials))
    ELSE initials \o ".X"

\* getInitials of v2.2.
getInitials(fullName) ==
    IF ~Truthy(fullName) THEN "X.X"
    ELSE IF includes(fullName, ",") THEN CommaInitials(splitComma(fullName))
    ELSE PlainInitials(WordInitials(fullName))

\* getInitials of v3.0 final.
getInitialsFinal(fullName) ==
    IF ~Truthy(fullName) THEN "X.X"
    ELSE IF includes(fullName, ",") THEN CommaInitials(splitComma(fullName))
    ELSE "X.X"

\* getInitials of v3.0 Habitat: the initials of the first and of the last
\* word, or the first two letters of a single word.
RECURSIVE UpperString(_)
UpperString(s) ==
    IF s = "" THEN "" ELSE toUpperCase(Ch(s, 1)) \o UpperString(SubSeq(s, 2, Len(s)))

OneWordInitials(word) == UpperString(SubSeq(word, 1, IF Len(word) < 2 THEN Len(word) ELSE 2))

TwoInitials(letters, initials) ==
    IF Len(initials) >= 2 THEN Ch(initials, 1) \o Ch(initials, Len(initials))
    ELSE IF Len(initials) = 1 THEN OneWordInitials(trim(letters))
    ELSE "X.X"

InitialsOfLetters(letters) == TwoInitials(letters, WordInitials(letters))

FirstThenLast(parts) == SecondOf(parts) \o " " \o trim(parts[1])

getInitialsHabitat(fullName) ==
    IF ~Truthy(fullName) THEN "X.X"
    ELSE IF includes(fullName, ",")
    THEN InitialsOfLetters(LettersFrom(FirstThenLast(splitComma(fullName)), 1))
    ELSE InitialsOfLetters(LettersFrom(fullName, 1))

\* A variant of the staff initials without the placeholder.
staffInitialsRequired(staffName) ==
    IF Truthy(staffName) THEN getInitials(staffName) ELSE Null

\* const staffInitials = staffName ? getInitials(staffName) : 'X.X'
staffInitialsOf(staffName) == IF Truthy(staffName) THEN getInitials(staffName) ELSE "X.X"

\* getCurrentTime() at the moment of the call.
ClockText == "1:39 pm"

\* The package log entry for one package:
\* `${initials} (${studentNumber}) ${roomSpace} 1 pkg @ ${time} - ${staffInitials}`
packageLogEntry(initials, data, staffInitials) ==
    initials \o " (" \o data.studentNumber \o ") " \o data.roomSpace
    \o " 1 pkg @ " \o ClockText \o " - " \o staffInitials

(***************************************************************************)
(* v3.0 Habitat (part_003): the record extraction                          *)
(***************************************************************************)
\* getStudentNameFromBreadcrumb: the caption of the first item whose module
\* attribute parses to an Entry with a caption (state.lastRecordId is set to
\* its recordId), or else the trimmed text of the first item with a comma.
IsEntryCrumb(c) ==
    /\ c.module.parses
    /\ c.module.dbObjectName = "Entry"
    /\ Truthy(c.module.caption)
    /\ ~includes(c.module.caption, "Rez 360")

nameFromEntry(breadcrumbs, at, recordId) ==
    IF at <= Len(breadcrumbs)
    THEN [caption |-> breadcrumbs[at].module.caption,
          lastRecordId |-> breadcrumbs[at].module.recordId]
    ELSE [caption |-> getCurrentBreadcrumb(breadcrumbs), lastRecordId |-> recordId]

\* A variant that answers for an entry once: it returns nothing for the entry
\* whose recordId is the stored one.
getStudentNameOnce(breadcrumbs, recordId) ==
    LET named == nameFromEntry(breadcrumbs,
                               First(1, Len(breadcrumbs),
                                     LAMBDA i : IsEntryCrumb(breadcrumbs[i])),
                               recordId)
    IN  IF recordId # Null /\ named.lastRecordId = recordId
        THEN [caption |-> Null, lastRecordId |-> recordId]
        ELSE named

getStudentNameFromBreadcrumb(breadcrumbs, recordId) ==
    nameFromEntry(breadcrumbs,
                  First(1, Len(breadcrumbs), LAMBDA i : IsEntryCrumb(breadcrumbs[i])),
                  recordId)

\* Strategy 2's capture, [A-Z0-9]+[NS]?-(?:[A-Z0-9]+-)?\d+[a-z]? under the i
\* flag, at position p: the index of its last character, 0 for no match.
DigitsOptLetter(s, p, e) ==
    IF e > p THEN (IF e <= Len(s) /\ InClass("az", Ch(s, e)) THEN e ELSE e - 1) ELSE 0

RoomOptTailDigits(s, p) == DigitsOptLetter(s, p, RunEnd(s, p, "d"))

SegmentThenOptDigits(s, p, q) ==
    IF RunThenHyphen(s, p, q) THEN RoomOptTailDigits(s, q + 1) ELSE 0

RoomOptTailSegment(s, p) == SegmentThenOptDigits(s, p, RunEnd(s, p, "an"))

RoomOptEndAfterRun(s, p, q) ==
    IF RunThenHyphen(s, p, q)
    THEN FirstEnd(SelectSeq(<<RoomOptTailSegment(s, q + 1), RoomOptTailDigits(s, q + 1)>>,
                            LAMBDA e : e # 0))
    ELSE 0

RoomOptEndAt(s, p) == RoomOptEndAfterRun(s, p, RunEnd(s, p, "an"))

\* /Room Space\s*[:.]?\s*(ROOM)/i from position p: the capture, or Null.
RECURSIVE LabelledRoomFrom(_, _)
LabelledRoomCapture(s, at, b, e) ==
    IF at = 0 THEN Null
    ELSE IF e # 0 THEN SubSeq(s, b, e)
    ELSE LabelledRoomFrom(s, at + 1)

LabelledRoomAfter(s, at, b) ==
    LabelledRoomCapture(s, at, b, IF b > Len(s) THEN 0 ELSE RoomOptEndAt(s, b))

LabelledRoomAt(s, at) ==
    LabelledRoomAfter(s, at, SkipSeparator(s, RunEnd(s, at + 10, "s")))

LabelledRoomFrom(s, p) == LabelledRoomAt(s, indexOfFromCI(s, "Room Space", p))

\* extractBedspace of v3.0 Habitat: the first match of RESIDENCE_PATTERN in
\* the text, or else the room after the "Room Space" label.
strictOrLabelled(containerText, strictMatch) ==
    IF strictMatch.from # 0 THEN MatchText(containerText, strictMatch)
    ELSE LabelledRoomFrom(containerText, 1)

extractBedspaceHabitat(containerText) ==
    strictOrLabelled(containerText, FirstRoomFrom(containerText, 1))

\* validateStudentData of v3.0 Habitat: no test of the name's format.
validateStudentDataHabitat(data, cache, time) ==
    IF /\ Truthy(data.fullName)
       /\ STUDENT_NUMBER_PATTERN_test(data.studentNumber)
       /\ RESIDENCE_PATTERN_test(data.roomSpace)
    THEN [data |-> data, valid |-> TRUE,
          lastExtracted |-> [name |-> Null, fullName |-> data.fullName,
                             studentNumber |-> data.studentNumber,
                             roomSpace |-> data.roomSpace, timestamp |-> time]]
    ELSE [data |-> NoData, valid |-> FALSE, lastExtracted |-> cache]

\* getStudentDataFromRez360 of v3.0 Habitat: null as soon as a field is
\* missing. The result carries state.lastRecordId after the call.
habitatRecord(named, studentNumber, roomSpace, cache, time) ==
    IF ~Truthy(named.caption) \/ studentNumber = Null \/ ~Truthy(roomSpace)
    THEN [data |-> NoData, valid |-> FALSE, lastExtracted |-> cache,
          lastRecordId |-> named.lastRecordId]
    ELSE [lastRecordId |-> named.lastRecordId]
         @@ validateStudentDataHabitat([fullName |-> named.caption,
                                        studentNumber |-> studentNumber,
                                        roomSpace |-> roomSpace], cache, time)

getStudentDataFromRez360Habitat(breadcrumbs, containerText, recordId, cache, time) ==
    habitatRecord(getStudentNameFromBreadcrumb(breadcrumbs, recordId),
                  StudentNumberHabitatFrom(containerText, 1),
                  extractBedspaceHabitat(containerText), cache, time)

\* The result of a generator with its log entry and the state it leaves.
Outcome(success, message, data, staffName, staffInitials, logEntry, cache, recordId) ==
    [success |-> success, error |-> message, data |-> data, staffName |-> staffName,
     staffInitials |-> staffInitials, logEntry |-> logEntry,
     lastExtracted |-> cache, lastRecordId |-> recordId]

\* generateLogEntry of v3.0 Habitat for one package.
logEntryHabitat(studentData, staffName, staffInitials) ==
    IF ~studentData.valid
    THEN Outcome(FALSE, "Data not found. Ensure you are on a Student Profile.", NoData,
                 Null, Null, Null, studentData.lastExtracted, studentData.lastRecordId)
    ELSE Outcome(TRUE, "", studentData.data, staffName, staffInitials,
                 packageLogEntry(getInitialsHabitat(studentData.data.fullName),
                                 studentData.data, staffInitials),
                 studentData.lastExtracted, studentData.lastRecordId)

staffInitialsHabitat(staffName) ==
    IF Truthy(staffName) THEN getInitialsHabitat(staffName) ELSE "X.X"

generateLogEntryHabitat(breadcrumbs, containerText, scripts, recordId, cache, time) ==
    logEntryHabitat(
        getStudentDataFromRez360Habitat(breadcrumbs, containerText, recordId, cache, time),
        getStaffNameHabitat(scripts), staffInitialsHabitat(getStaffNameHabitat(scripts)))

(***************************************************************************)
(* v3.0 final (part_000): the record extraction                            *)
(***************************************************************************)
\* getCurrentBreadcrumb of v3.0 final: a comma and no "Dashboard".
IsNameText(text) == includes(text, ",") /\ ~includes(text, "Dashboard")

getCurrentBreadcrumbFinal(breadcrumbs) ==
    CrumbAt(breadcrumbs,
            First(1, Len(breadcrumbs), LAMBDA i : IsNameText(trim(breadcrumbs[i].text))))

\* The room of getStudentData: the second code of "Room A/B", or else the
\* first match of RESIDENCE_PATTERN.
roomFinal(text, afterSlash) ==
    IF Truthy(afterSlash) THEN afterSlash ELSE MatchText(text, FirstRoomFrom(text, 1))

\* getStudentData: no validation beyond the three matches.
studentDataFinal(name, studentNumber, room) ==
    IF studentNumber = Null THEN [data |-> NoData, valid |-> FALSE]
    ELSE IF Truthy(name) /\ Truthy(room)
    THEN [data |-> [fullName |-> name, studentNumber |-> studentNumber, roomSpace |-> room],
          valid |-> TRUE]
    ELSE [data |-> NoData, valid |-> FALSE]

getStudentData(breadcrumbs, text) ==
    studentDataFinal(getCurrentBreadcrumbFinal(breadcrumbs), StudentNumberFrom(text, 1),
                     roomFinal(text, BedspaceAfterSlashFrom(text, 1)))

\* generatePackage: a failure carries no error property.
packageFinal(studentData, staffName, staffInitials, cache, recordId) ==
    IF ~studentData.valid
    THEN Outcome(FALSE, Null, NoData, Null, Null, Null, cache, recordId)
    ELSE Outcome(TRUE, "", studentData.data, staffName, staffInitials,
                 packageLogEntry(getInitialsFinal(studentData.data.fullName),
                                 studentData.data, staffInitials),
                 cache, recordId)

generatePackage(breadcrumbs, text, scripts, cache, recordId) ==
    packageFinal(getStudentData(breadcrumbs, text), getStaffName(scripts),
                 getInitialsFinal(getStaffName(scripts)), cache, recordId)

(***************************************************************************)
(* v2.2 (content.js): the log entry of generateLogEntry                    *)
(***************************************************************************)
\* The staff part and the entry of generateLogEntry, for a checked record.
logEntryOf(checked, staffName, staffInitials, recordId) ==
    IF ~checked.success
    THEN Outcome(FALSE, checked.error, checked.data, Null, Null, Null,
                 checked.lastExtracted, recordId)
    ELSE Outcome(TRUE, "", checked.data, staffName, staffInitials,
                 packageLogEntry(getInitials(checked.data.fullName), checked.data,
                                 staffInitials),
                 checked.lastExtracted, recordId)

packageLog(breadcrumbs, text, scripts, recordId, cache, time) ==
    logEntryOf(generateLogEntry(breadcrumbs, text, cache, time), getStaffName(scripts),
               staffInitialsOf(getStaffName(scripts)), recordId)

(***************************************************************************)
(* SpecRecord: the package log generators on one profile page              *)
(***************************************************************************)
\* Each generation of the script is asked for a package log entry, MaxCalls
\* times in a row, on a page that does not change.
MaxCalls == 2

RecordPanel(l) == [kind |-> "record", who |-> ResidentA, layout |-> l]

InitRecord ==
    /\ ScriptLoaded
    /\ timers = NoTimers
    /\ keyInput = NoKeyInput
    /\ keyResult = NoKeyResult
    /\ \E l \in RecordLayouts :
        /\ panel = RecordPanel(l)
        /\ crumbs = RecordCrumbs(l.crumb)
        /\ panelText = RecordText(l)

\* One click on a package log button: the call and what it leaves in the state.
Generated(by, result) ==
    /\ call.count < MaxCalls
    /\ IF call.count = 0 THEN TRUE ELSE call.by = by
    /\ call' = [op |-> "package", by |-> by, count |-> call.count + 1,
                success |-> result.success, error |-> result.error, data |-> result.data,
                staffName |-> result.staffName, staffInitials |-> result.staffInitials,
                logEntry |-> result.logEntry]
    /\ lastExtracted' = result.lastExtracted
    /\ lastRecordId' = result.lastRecordId
    /\ UNCHANGED <<crumbs, panel, panelText, now, lastBreadcrumb, lastProfileHash,
                   validationAttempts, timers, buttons, host, keyInput, keyResult>>

PackageLogV22 ==
    Generated("v2.2", packageLog(crumbs, panelText, RecordScripts(panel.layout.staff),
                                 lastRecordId, lastExtracted, now))

PackageLogHabitat ==
    Generated("habitat",
              generateLogEntryHabitat(crumbs, panelText, RecordScripts(panel.layout.staff),
                                      lastRecordId, lastExtracted, now))

PackageLogFinal ==
    Generated("final", generatePackage(crumbs, panelText, RecordScripts(panel.layout.staff),
                                       lastExtracted, lastRecordId))

NextRecord == PackageLogV22 \/ PackageLogHabitat \/ PackageLogFinal

SpecRecord == InitRecord /\ [][NextRecord]_vars

(***************************************************************************)
(* Properties of the record extraction                                     *)
(***************************************************************************)
\* A value that is a room code from its first to its last character.
IsRoomCode(v) == v # Null /\ FirstRoomFrom(v, 1) = [from |-> 1, to |-> Len(v)]

\* C4: every record of a successful call has a student number of exactly
\* eight digits, a room that is a room code, and a name with the comma of
\* "Last, First".
C4_ValidRecord ==
    (call.count > 0 /\ call.success) =>
        /\ STUDENT_NUMBER_PATTERN_test(call.data.studentNumber)
        /\ IsRoomCode(call.data.roomSpace)
        /\ includes(call.data.fullName, ",")

\* C11: when the "Student Number" label is followed by a run of seven or of
\* nine digits, the call returns no record.
C11_RejectsOtherLengths ==
    (call.count > 0 /\ panel.layout.number \in {"seven", "nine"}) =>
        (~call.success /\ call.data = NoData)

\* C12: on a page with the "Last, First" breadcrumb, the label with eight
\* digits and a room line "Room parent/bedspace", the record is the name, the
\* digits and the bedspace, whatever other room codes the page holds.
C12_SecondToken ==
    (/\ call.count > 0
     /\ panel.layout.crumb = "name"
     /\ panel.layout.number = "eight"
     /\ panel.layout.room \in {"slash", "lettered"}) =>
        /\ call.success
        /\ call.data = [fullName |-> ResidentA.name, studentNumber |-> ResidentA.id,
                        roomSpace |-> ShownBedspace(panel.layout.room)]

\* C13: a call that fails returns an error message with success: false.
C13_FailureHasReason == (call.count > 0 /\ ~call.success) => Truthy(call.error)

\* The page that lacks one field and nothing else, and the error a generation
\* of the script reports on it.
Fields == {"record", "identifier", "room"}

PageLacking(field) ==
    [crumb  |-> IF field = "record" THEN "none" ELSE "name",
     number |-> IF field = "identifier" THEN "none" ELSE "eight",
     room   |-> IF field = "room" THEN "none" ELSE "space",
     head   |-> TRUE, extra |-> "none", staff |-> TRUE]

FirstGenerated(by, l) ==
    CASE by = "v2.2" ->
            packageLog(RecordCrumbs(l.crumb), RecordText(l), RecordScripts(l.staff),
                       Null, AllNull, StartTime)
      [] by = "habitat" ->
            generateLogEntryHabitat(RecordCrumbs(l.crumb), RecordText(l),
                                    RecordScripts(l.staff), Null, AllNull, StartTime)
      [] OTHER ->
            generatePackage(RecordCrumbs(l.crumb), RecordText(l), RecordScripts(l.staff),
                            AllNull, Null)

ReasonFor(by, field) == FirstGenerated(by, PageLacking(field)).error

\* C14: the error of a call on a page that lacks one field is not the error
\* reported for a page that lacks another field.
C14_ReasonNamesField ==
    \A field \in Fields :
        (call.count > 0 /\ panel.layout = PageLacking(field)) =>
            /\ ~call.success
            /\ \A other \in Fields \ {field} : call.error # ReasonFor(call.by, other)

\* A page with the breadcrumb, the eight digits and the room of the resident.
CompletePage ==
    /\ panel.layout.crumb = "name"
    /\ panel.layout.number = "eight"
    /\ panel.layout.room = "space"

Placeholder == "X.X"

EndsWith(s, tail) == Len(s) >= Len(tail) /\ SubSeq(s, Len(s) - Len(tail) + 1, Len(s)) = tail

\* C15: on a complete page without a script that yields full_name, the staff
\* name is null and the call succeeds with an entry that ends with the
\* placeholder initials.
C15_PlaceholderInitials ==
    (call.count > 0 /\ CompletePage /\ ~panel.layout.staff) =>
        /\ call.success
        /\ call.staffName = Null
        /\ call.staffInitials = Placeholder
        /\ EndsWith(call.logEntry, " - " \o Placeholder)

C15_Witness ==
    /\ call.count > 0 /\ call.by = "v2.2"
    /\ CompletePage /\ ~panel.layout.staff
    /\ call.success /\ call.staffInitials = Placeholder

\* What the caller gets from a call.
ResultOf(c) ==
    [success |-> c.success, error |-> c.error, data |-> c.data, logEntry |-> c.logEntry]

CutAt(text, at) == IF at # 0 THEN substringFrom(text, at) ELSE text

ScopeV22(text) == CutAt(text, indexOf(text, "EntryID:"))

ChainV22(m1, m2, m3, m4) ==
    IF Truthy(m1) THEN m1 ELSE IF Truthy(m2) THEN m2 ELSE IF Truthy(m3) THEN m3 ELSE m4

ExpectedRoomV22(scope) ==
    ChainV22(BedspaceAfterSlashFrom(scope, 1), BedspaceInRez360(scope),
             BedspaceAfterRoomSpace(scope), LastOf(AllRoomsFrom(scope, 1)))

RECURSIVE JoinCodes(_)
JoinCodes(codes) ==
    IF Len(codes) = 0 THEN ""
    ELSE IF Len(codes) = 1 THEN codes[1]
    ELSE codes[1] \o ", " \o JoinCodes(SubSeq(codes, 2, Len(codes)))

\* `${initials} (${studentNumber}) ${roomSpace} KC: ${keys}` and what follows.
lockoutLogEntry(initials, data, codes, ending) ==
    initials \o " (" \o data.studentNumber \o ") " \o data.roomSpace
    \o " KC: " \o JoinCodes(codes) \o ending

\* The result of a lockout generator.
LockoutResult(success, message, logEntry, keyCodes) ==
    [success |-> success, error |-> message, logEntry |-> logEntry, keyCodes |-> keyCodes]

\* generateLockoutEntry of v2.2 after the checks of the record.
lockoutV22(result) ==
    IF result.success
    THEN LockoutResult(TRUE, "", lockoutLogEntry(getInitials(result.data.fullName),
                                                 result.data, result.keyCodes.codes, ""),
                       result.keyCodes)
    ELSE LockoutResult(FALSE, result.error, Null, NullKeys)

\* A variant of v3.0 Habitat's test of the key codes that looks for null only.
lockoutEntryHabitatNullOnly(studentData, keyCodes, staffInitials) ==
    IF keyCodes.null
    THEN LockoutResult(FALSE, "No keys found (Try opening the Keys tab)", Null, NullKeys)
    ELSE LockoutResult(TRUE, "",
                       lockoutLogEntry(getInitialsHabitat(studentData.fullName), studentData,
                                       keyCodes.codes, "; [Reason] - " \o staffInitials),
                       keyCodes)

\* generateLockoutEntry of v3.0 Habitat, for the student data it extracted.
lockoutEntryHabitat(studentData, keyCodes, staffInitials) ==
    IF keyCodes.null \/ Len(keyCodes.codes) = 0
    THEN LockoutResult(FALSE, "No keys found (Try opening the Keys tab)", Null, NullKeys)
    ELSE LockoutResult(TRUE, "",
                       lockoutLogEntry(getInitialsHabitat(studentData.fullName), studentData,
                                       keyCodes.codes, "; [Reason] - " \o staffInitials),
                       keyCodes)

\* generateLockout of v3.0 final and of v3.1: extractKeyCodes returns an array.
generateLockout(data, keys, staff, message) ==
    IF Len(keys.codes) = 0 THEN LockoutResult(FALSE, message, Null, NullKeys)
    ELSE LockoutResult(TRUE, "",
                       lockoutLogEntry(getInitialsFinal(data.fullName), data, keys.codes,
                                       "; [Fill in Reason] - " \o staff),
                       keys)

\* The record of the resident the page was opened for, as the record
\* extraction hands it to the generator, and the checked record of v2.2.
RequestedData ==
    [fullName |-> keyInput.studentName, studentNumber |-> keyInput.studentID,
     roomSpace |-> (CHOOSE r \in Residents : r.id = keyInput.studentID).room]

CheckedRequested ==
    [success |-> TRUE, error |-> "", data |-> RequestedData, keyCodes |-> NullKeys,
     chain |-> TRUE, consulted |-> FALSE, lastExtracted |-> AllNull]

\* One click on the lockout button.
LockedOut(by, result) ==
    /\ call.count = 0
    /\ call' = [op |-> "lockout", by |-> by, count |-> 1, success |-> result.success,
                error |-> result.error, logEntry |-> result.logEntry,
                keyCodes |-> result.keyCodes]
    /\ UNCHANGED <<crumbs, panel, panelText, now, lastExtracted, lastRecordId,
                   lastBreadcrumb, lastProfileHash, validationAttempts, timers, buttons,
                   host, keyInput, keyResult>>

LockoutV22 ==
    LockedOut("v2.2", lockoutV22(lockoutEntry(CheckedRequested, extractKeyCodes(panelText))))

LockoutHabitat ==
    LockedOut("habitat",
              lockoutEntryHabitat(RequestedData,
                                  extractKeyCodesHabitat(panelText, keyInput.studentName,
                                                         keyInput.studentID),
                                  Placeholder))

LockoutFinal ==
    LockedOut("final",
              generateLockout(RequestedData,
                              extractKeyCodesFinal(panelText, keyInput.studentID),
                              Placeholder, "No keys found for this student ID."))

LockoutV31 ==
    LockedOut("v3.1",
              generateLockout(RequestedData,
                              extractKeyCodesV31(panelText, keyInput.studentID),
                              Placeholder, "No keys found"))

NextLockout == LockoutV22 \/ LockoutHabitat \/ LockoutFinal \/ LockoutV31

\* The pages of a lockout: the pages with tokens after key labels, and the
\* pages of resident A with no, four or five key entries.
MaxLockoutTokens == 1

InitLockout ==
    /\ ScriptLoaded
    /\ crumbs = <<>>
    /\ panel = StaticPanel
    /\ timers = NoTimers
    /\ keyResult = NoKeyResult
    /\ \/ \E l \in TokenLayouts :
            /\ Len(l.tokens) <= MaxLockoutTokens
            /\ panelText = TokenText(l)
            /\ keyInput = [studentName |-> ResidentA.name, studentID |-> ResidentA.id,
                           layout |-> l]
       \/ \E l \in BusyLayouts, r \in Residents :
            /\ panelText = BusyText(l)
            /\ keyInput = [studentName |-> r.name, studentID |-> r.id, layout |-> l]

SpecLockout == InitLockout /\ [][NextLockout]_vars

(***************************************************************************)
(* Properties of the lockout generators                                    *)
(***************************************************************************)
\* What extractKeyCodes of a version returns on the page.
KeysOf(by) ==
    CASE by = "v2.2"    -> extractKeyCodes(panelText)
      [] by = "habitat" -> extractKeyCodesHabitat(panelText, keyInput.studentName,
                                                  keyInput.studentID)
      [] by = "final"   -> extractKeyCodesFinal(panelText, keyInput.studentID)
      [] OTHER          -> extractKeyCodesV31(panelText, keyInput.studentID)

NoKeysReason(by) ==
    CASE by = "v2.2"    -> "No key codes found on this page"
      [] by = "habitat" -> "No keys found (Try opening the Keys tab)"
      [] by = "final"   -> "No keys found for this student ID."
      [] OTHER          -> "No keys found"

NoKeys(keys) == keys.null \/ keys.codes = <<>>

\* C17: a lockout call succeeds only with a key set that is not empty, and a
\* null result of extractKeyCodes and an empty one alike make it fail with
\* the "no keys" reason and without a log entry.
C17_NoKeysNoEntry ==
    call.count > 0 =>
        /\ call.success <=> ~NoKeys(KeysOf(call.by))
        /\ call.success => /\ call.keyCodes = KeysOf(call.by)
                           /\ call.logEntry # Null
        /\ ~call.success => /\ call.error = NoKeysReason(call.by)
                            /\ call.logEntry = Null

\* An array of matches that the filter empties.
C17_Witness ==
    /\ call.count > 0 /\ call.by = "habitat"
    /\ ~KeysOf("habitat").null /\ KeysOf("habitat").codes = <<>>
    /\ ~call.success /\ call.logEntry = Null

(***************************************************************************)
(* SpecHabitat: v3.0 Habitat (part_003) on a page that the host updates    *)
(***************************************************************************)
\* CONFIG.MAX_VALIDATION_ATTEMPTS of v3.0 Habitat.
MAX_VALIDATION_ATTEMPTS_HABITAT == 20

\* The host updates the page MaxHabitatUpdates times and the user clicks
\* MaxHabitatClicks times.
MaxHabitatUpdates == 1
MaxHabitatClicks == 1

\* The elements v3.0 Habitat injects. The pages of this specification show
\* one parcel at most: the master button, made for a count above one, and a
\* second individual button are never made.
HabitatButtonIds == {"pkg-btn-0", "lockout-log-btn"}

HabitatInjectedIds == HabitatButtonIds \cup {"log-preview"}

NoHabitatButtons == [b \in HabitatInjectedIds |-> "absent"]

\* createLockoutButton's anchor: the first element whose text has a key word
\* (0: none, and the button goes to the top of the container).
keyHeader(els) ==
    FoundAt(els, First(1, Len(els), LAMBDA i : hasKeyCodes(els[i].text)))

HabitatButtonText(id, injected) ==
    CASE injected[id] = "absent"  -> ""
      [] injected[id] = "copied"  -> "Copied!"
      [] id = "lockout-log-btn"   -> "Copy Lockout"
      [] OTHER                    -> "Copy Log"

HabitatInjectedAt(placed, header, i, injected) ==
    (IF placed.issue[i] = 0 THEN HabitatButtonText("pkg-btn-0", injected) ELSE "")
    \o (IF i = header THEN HabitatButtonText("lockout-log-btn", injected) ELSE "")

RECURSIVE HabitatTextFrom(_, _, _, _)
HabitatTextFrom(placed, header, i, injected) ==
    IF i > Len(placed.els) THEN ""
    ELSE placed.els[i].text \o HabitatInjectedAt(placed, header, i, injected) \o "\n"
         \o HabitatTextFrom(placed, header, i + 1, injected)

\* getActiveContainer().innerText with the buttons of v3.0 Habitat.
habitatInnerTextAt(placed, header, injected) ==
    (IF header = 0 /\ injected["lockout-log-btn"] # "absent"
     THEN HabitatButtonText("lockout-log-btn", injected) \o "\n" ELSE "")
    \o HabitatTextFrom(placed, header, 1, injected)

habitatInnerText(view, injected) ==
    habitatInnerTextAt(Placed[view], keyHeader(Placed[view].els), injected)

\* clearOldButtons of v3.0 Habitat: the buttons are removed and nothing else
\* is done.
clearOldButtonsHabitat(injected) ==
    [id \in DOMAIN injected |-> IF id \in HabitatButtonIds THEN "absent" ELSE injected[id]]

CreatedHabitat(injected, id) ==
    IF injected[id] = "absent" THEN [injected EXCEPT ![id] = "ready"] ELSE injected

\* createLogButtons of v3.0 Habitat, called on a page with a resident's name
\* in the breadcrumb: a button for the Issue button, and the lockout button.
createLogButtonsHabitat(view, injected) ==
    CreatedHabitat(IF Placed[view].count > 0 THEN CreatedHabitat(injected, "pkg-btn-0")
                   ELSE injected,
                   "lockout-log-btn")

\* The body of initialize of v3.0 Habitat once the breadcrumb has been read.
initializeNamed(named, view, injected, cleared, breadcrumb, attempts) ==
    [lastBreadcrumb     |-> IF Truthy(named.caption) /\ named.caption # breadcrumb
                            THEN named.caption ELSE breadcrumb,
     lastRecordId       |-> named.lastRecordId,
     validationAttempts |-> IF Truthy(named.caption) THEN 0
                            ELSE IF attempts < MAX_VALIDATION_ATTEMPTS_HABITAT
                                 THEN attempts + 1 ELSE attempts,
     retry              |-> ~Truthy(named.caption)
                            /\ attempts < MAX_VALIDATION_ATTEMPTS_HABITAT,
     buttons            |-> IF Truthy(named.caption)
                            THEN createLogButtonsHabitat(view, cleared) ELSE cleared,
     mutated            |-> IF Truthy(named.caption)
                            THEN createLogButtonsHabitat(view, cleared) # injected
                            ELSE cleared # injected]

initializeBreadcrumb(named, view, injected, breadcrumb, attempts) ==
    initializeNamed(named, view, injected,
                    IF Truthy(named.caption) /\ named.caption # breadcrumb
                    THEN clearOldButtonsHabitat(injected) ELSE injected,
                    breadcrumb, attempts)

initializeHabitat(breadcrumbs, view, injected, breadcrumb, recordId, attempts) ==
    initializeBreadcrumb(getStudentNameFromBreadcrumb(breadcrumbs, recordId), view,
                         injected, breadcrumb, attempts)

\* generateLockoutEntry of v3.0 Habitat.
lockoutOfRecord(studentData, text, staffInitials) ==
    IF ~studentData.valid
    THEN LockoutResult(FALSE, "Data not found", Null, NullKeys)
    ELSE lockoutEntryHabitat(studentData.data,
                             extractKeyCodesHabitat(text, studentData.data.fullName,
                                                    studentData.data.studentNumber),
                             staffInitials)

lockoutWithState(studentData, result) ==
    [success |-> result.success, error |-> result.error, logEntry |-> result.logEntry,
     data |-> studentData.data, lastExtracted |-> studentData.lastExtracted,
     lastRecordId |-> studentData.lastRecordId]

lockoutOfPage(studentData, text, staffInitials) ==
    lockoutWithState(studentData, lockoutOfRecord(studentData, text, staffInitials))

generateLockoutEntryHabitat(breadcrumbs, containerText, scripts, recordId, cache, time) ==
    lockoutOfPage(
        getStudentDataFromRez360Habitat(breadcrumbs, containerText, recordId, cache, time),
        containerText, staffInitialsHabitat(getStaffNameHabitat(scripts)))

generateHabitat(id, breadcrumbs, containerText, scripts, recordId, cache, time) ==
    IF id = "lockout-log-btn"
    THEN generateLockoutEntryHabitat(breadcrumbs, containerText, scripts, recordId, cache, time)
    ELSE generateLogEntryHabitat(breadcrumbs, containerText, scripts, recordId, cache, time)

\* The script is loaded into a page without a profile or into the profile of
\* resident A; loading ends with a call of initialize.
InitHabitat ==
    /\ now = StartTime
    /\ lastExtracted = AllNull
    /\ lastRecordId = Null
    /\ lastBreadcrumb = Null
    /\ lastProfileHash = NoHash
    /\ validationAttempts = 0
    /\ buttons = NoHabitatButtons
    /\ call = [op |-> "none", count |-> 0]
    /\ host = [updates |-> 0, sinceCall |-> FALSE]
    /\ keyInput = NoKeyInput
    /\ keyResult = NoKeyResult
    /\ timers = [NoTimers EXCEPT !.init = TRUE]
    /\ \/ crumbs = NoProfileCrumbs /\ panel = [kind |-> "loading", who |-> ResidentA]
       \/ /\ crumbs = ProfileCrumbs(ResidentA, ResidentA.name)
          /\ panel = [kind |-> "profile", who |-> ResidentA]
    /\ panelText = habitatInnerText(panel, NoHabitatButtons)

\* The host shows another page: other breadcrumb items, another content of
\* the active container (and then without the buttons placed there), or both.
HabitatHostShows ==
    /\ host.updates < MaxHabitatUpdates
    /\ \E c \in CrumbStates, v \in PanelViews :
          /\ <<c, v>> # <<crumbs, panel>>
          /\ crumbs' = c
          /\ panel' = v
          /\ buttons' = IF v = panel THEN buttons ELSE clearOldButtonsHabitat(buttons)
    /\ panelText' = habitatInnerText(panel', buttons')
    /\ timers' = Observed(timers)
    /\ host' = [updates |-> host.updates + 1, sinceCall |-> TRUE]
    /\ UNCHANGED <<now, lastExtracted, lastRecordId, lastBreadcrumb, lastProfileHash,
                   validationAttempts, call, keyInput, keyResult>>

\* state.timers.observer fires, or the timeout of a retry: initialize() sets
\* state.timers.init anew.
HabitatObserverFires ==
    /\ timers.observer
    /\ timers' = [timers EXCEPT !.observer = FALSE, !.init = TRUE]
    /\ UNCHANGED <<crumbs, panel, panelText, now, lastExtracted, lastRecordId,
                   lastBreadcrumb, lastProfileHash, validationAttempts, buttons, call,
                   host, keyInput, keyResult>>

HabitatRetryFires ==
    /\ timers.retries > 0
    /\ timers' = [timers EXCEPT !.retries = @ - 1, !.init = TRUE]
    /\ UNCHANGED <<crumbs, panel, panelText, now, lastExtracted, lastRecordId,
                   lastBreadcrumb, lastProfileHash, validationAttempts, buttons, call,
                   host, keyInput, keyResult>>

\* state.timers.init fires.
HabitatInitFires ==
    /\ timers.init
    /\ \E run \in {initializeHabitat(crumbs, panel, buttons, lastBreadcrumb, lastRecordId,
                                     validationAttempts)} :
          /\ run.retry => timers.retries < MaxRetries
          /\ lastBreadcrumb' = run.lastBreadcrumb
          /\ lastRecordId' = run.lastRecordId
          /\ validationAttempts' = run.validationAttempts
          /\ buttons' = run.buttons
          /\ panelText' = habitatInnerText(panel, run.buttons)
          /\ timers' = [init     |-> FALSE,
                        observer |-> timers.observer \/ run.mutated,
                        retries  |-> IF run.retry THEN timers.retries + 1
                                     ELSE timers.retries]
    /\ UNCHANGED <<crumbs, panel, now, lastExtracted, lastProfileHash, call, host,
                   keyInput, keyResult>>

\* handleButtonClick of v3.0 Habitat on a button of the page.
HabitatClick(b) ==
    /\ buttons[b] # "absent"
    /\ call.count < MaxHabitatClicks
    /\ \E staff \in BOOLEAN :
        \E result \in {generateHabitat(b, crumbs, panelText, RecordScripts(staff),
                                       lastRecordId, lastExtracted, now)} :
           /\ lastExtracted' = result.lastExtracted
           /\ lastRecordId' = result.lastRecordId
           /\ call' = [op |-> ActionType(b), count |-> call.count + 1,
                       success |-> result.success, error |-> result.error,
                       data |-> result.data, logEntry |-> result.logEntry]
           /\ \E copied \in BOOLEAN :
                IF result.success /\ copied
                THEN /\ buttons' = [buttons EXCEPT ![b] = "copied",
                                                   !["log-preview"] = "shown"]
                     /\ panelText' = habitatInnerText(panel, buttons')
                     /\ timers' = Observed(timers)
                ELSE UNCHANGED <<buttons, panelText, timers>>
    /\ host' = [host EXCEPT !.sinceCall = FALSE]
    /\ UNCHANGED <<crumbs, panel, now, lastBreadcrumb, lastProfileHash,
                   validationAttempts, keyInput, keyResult>>

\* The timeout that puts a button's own text back after "Copied!".
HabitatRestoreButton(b) ==
    /\ buttons[b] = "copied"
    /\ buttons' = [buttons EXCEPT ![b] = "ready"]
    /\ panelText' = habitatInnerText(panel, buttons')
    /\ timers' = Observed(timers)
    /\ UNCHANGED <<crumbs, panel, now, lastExtracted, lastRecordId, lastBreadcrumb,
                   lastProfileHash, validationAttempts, call, host, keyInput, keyResult>>

\* showPreview's timeout removes the preview.
HabitatRemovePreview ==
    /\ buttons["log-preview"] = "shown"
    /\ buttons' = [buttons EXCEPT !["log-preview"] = "absent"]
    /\ timers' = Observed(timers)
    /\ UNCHANGED <<crumbs, panel, panelText, now, lastExtracted, lastRecordId,
                   lastBreadcrumb, lastProfileHash, validationAttempts, call, host,
                   keyInput, keyResult>>

NextHabitat ==
    \/ HabitatHostShows
    \/ HabitatObserverFires
    \/ HabitatRetryFires
    \/ HabitatInitFires
    \/ \E b \in HabitatButtonIds : HabitatClick(b)
    \/ \E b \in HabitatButtonIds : HabitatRestoreButton(b)
    \/ HabitatRemovePreview

SpecHabitat == InitHabitat /\ [][NextHabitat]_vars

(***************************************************************************)
(* Properties of SpecHabitat                                               *)
(***************************************************************************)
\* C9: the run of initialize that sees another name in the breadcrumb than the
\* one recorded (and records it) leaves state.lastExtracted all null.
C9_SwitchDiscardsCache ==
    [][lastBreadcrumb' # lastBreadcrumb => lastExtracted' = AllNull]_vars

\* C27: an execution of initialize's body that finds no student name in the
\* breadcrumb leaves no injected button in the document and state.lastExtracted
\* all null.
C27_NoProfileNoButtons ==
    [][(/\ timers.init /\ ~timers'.init
        /\ ~Truthy(getStudentNameFromBreadcrumb(crumbs, lastRecordId).caption))
          => /\ \A b \in HabitatButtonIds : buttons'[b] = "absent"
             /\ lastExtracted' = AllNull]_vars

(***************************************************************************)
(* SpecScope: the container the extractions read                           *)
(***************************************************************************)
\* getActiveContainer of v3.0 Habitat.
getActiveContainer(doc) ==
    IF doc.habitat # "absent" THEN "habitat"
    ELSE IF doc.uiTab # "absent" THEN "uiTab"
    ELSE "body"

\* document.querySelector('.ui-tabs-panel:not(.ui-tabs-hide)') || document.body
\* of v2.2, v3.0 final and v3.1.
detailContainer(doc) == IF doc.uiTab # "absent" THEN "uiTab" ELSE "body"

\* generateLockout of v3.0 final and v3.1 on the text of the container.
lockoutOfData(studentData, keys, staff, noData, message) ==
    IF ~studentData.valid
    THEN LockoutResult(FALSE, noData, Null, NullKeys)
         @@ [data |-> NoData]
    ELSE generateLockout(studentData.data, keys, staff, message)
         @@ [data |-> studentData.data]

lockoutFinalOn(breadcrumbs, text, scripts) ==
    lockoutOfData(getStudentData(breadcrumbs, text),
                  extractKeyCodesFinal(text, getStudentData(breadcrumbs, text).data.studentNumber),
                  getInitialsFinal(getStaffName(scripts)),
                  "Student data not found. Wait for profile to load.",
                  "No keys found for this student ID.")

lockoutV31On(breadcrumbs, text, scripts) ==
    lockoutOfData(getStudentData(breadcrumbs, text),
                  extractKeyCodesV31(text, getStudentData(breadcrumbs, text).data.studentNumber),
                  getInitialsFinal(getStaffName(scripts)), "Student data not found",
                  "No keys found")

InitScope ==
    /\ ScriptLoaded
    /\ timers = NoTimers
    /\ keyInput = NoKeyInput
    /\ keyResult = NoKeyResult
    /\ crumbs = ProfileCrumbs(ResidentA, ResidentA.name)
    /\ \E doc \in ScopeDocs :
          /\ panel = doc
          /\ panelText = innerTextOf(doc, "body")

\* One click on the lockout button: the container of the record, the
\* container of the key codes, and the result.
Scoped(by, recordScope, keysScope, result) ==
    /\ call.count = 0
    /\ call' = [op |-> "lockout", by |-> by, count |-> 1, recordScope |-> recordScope,
                keysScope |-> keysScope, success |-> result.success,
                error |-> result.error, data |-> result.data]
    /\ UNCHANGED <<crumbs, panel, panelText, now, lastExtracted, lastRecordId,
                   lastBreadcrumb, lastProfileHash, validationAttempts, timers, buttons,
                   host, keyInput, keyResult>>

ScopedV22 ==
    Scoped("v2.2", detailContainer(panel), detailContainer(panel),
           generateLockoutEntry(crumbs, innerTextOf(panel, detailContainer(panel)),
                                lastExtracted, now))

ScopedHabitat ==
    Scoped("habitat", getActiveContainer(panel), getActiveContainer(panel),
           generateLockoutEntryHabitat(crumbs, innerTextOf(panel, getActiveContainer(panel)),
                                       RecordScripts(TRUE), lastRecordId, lastExtracted, now))

ScopedFinal ==
    Scoped("final", detailContainer(panel), detailContainer(panel),
           lockoutFinalOn(crumbs, innerTextOf(panel, detailContainer(panel)),
                          RecordScripts(TRUE)))

ScopedV31 ==
    Scoped("v3.1", detailContainer(panel), detailContainer(panel),
           lockoutV31On(crumbs, innerTextOf(panel, detailContainer(panel)),
                        RecordScripts(TRUE)))

NextScope == ScopedV22 \/ ScopedHabitat \/ ScopedFinal \/ ScopedV31

SpecScope == InitScope /\ [][NextScope]_vars

(***************************************************************************)
(* Properties of SpecScope                                                 *)
(***************************************************************************)
\* The first available of the active tabbed panel, the tab panel that is not
\* hidden, and the whole document.
ActiveScope ==
    IF panel.habitat # "absent" THEN "habitat"
    ELSE IF panel.uiTab # "absent" THEN "uiTab"
    ELSE "body"

\* The student number that the active scope shows first.
ActiveNumber ==
    CASE ActiveScope = "habitat" -> ResidentA.id
      [] ActiveScope = "uiTab"   -> ResidentB.id
      [] OTHER                   -> AsideRecord.id

\* C22: a call reads the record and the key codes in the active scope: the
\* active tabbed panel, or else the tab panel that is not hidden, or else, when
\* there is neither, the whole document; the student number of a successful
\* call is the one that scope shows.
C22_ActiveScope ==
    call.count > 0 =>
        /\ call.recordScope = ActiveScope
        /\ call.keysScope = ActiveScope
        /\ call.success => call.data.studentNumber = ActiveNumber

(***************************************************************************)
(* SpecTimers: the debounce timers of v2.2, timeout by timeout             *)
(***************************************************************************)
\* Here the variable timers holds the timeouts themselves: state.timers.init
\* and state.timers.observer (an id, 0 for null), the timeouts that have
\* been set and have neither fired nor been cleared, and the number of ids
\* the page has handed out. At most MaxTimeouts timeouts are set, the host
\* updates the page MaxTimerUpdates times.
MaxTimeouts == 7
MaxTimerUpdates == 3

NoTimeouts == [init |-> 0, observer |-> 0, pending |-> {}, armed |-> 0]

\* A variant that forgets the id and leaves the timeout to fire.
clearTimerForgetting(t, timerName) ==
    IF t[timerName] # 0 THEN [t EXCEPT ![timerName] = 0] ELSE t

\* clearTimer: clearTimeout of the id held, which then is set to null.
\* clearTimeout of a timeout that has fired does nothing.
clearTimer(t, timerName) ==
    IF t[timerName] # 0
    THEN [t EXCEPT !.pending = {p \in @ : p.id # t[timerName]}, ![timerName] = 0]
    ELSE t

\* setTimeout: a new id, and a timeout that will call the function.
setTimeoutOf(t, kind) ==
    [t EXCEPT !.armed = @ + 1, !.pending = @ \cup {[kind |-> kind, id |-> t.armed + 1]}]

\* state.timers[timerName] = setTimeout(...)
setTimer(t, timerName) == [setTimeoutOf(t, timerName) EXCEPT ![timerName] = t.armed + 1]

\* initialize(), up to the timeout it sets for its body.
initializeCalled(t) == setTimer(clearTimer(t, "init"), "init")

\* The MutationObserver's callback.
observerCallback(t) == setTimer(clearTimer(t, "observer"), "observer")

\* The timeout p has fired.
Fired(t, p) == [t EXCEPT !.pending = @ \ {p}]

PendingOf(kind) == {p \in timers.pending : p.kind = kind}

InitTimers ==
    /\ ScriptLoaded
    /\ \/ crumbs = NoProfileCrumbs /\ panel = [kind |-> "loading", who |-> ResidentA]
       \/ /\ crumbs = ProfileCrumbs(ResidentA, ResidentA.name)
          /\ panel \in {[kind |-> "loading", who |-> ResidentA],
                        [kind |-> "profile", who |-> ResidentA]}
    /\ panelText = innerText(panel, NoButtons)
    /\ timers = initializeCalled(NoTimeouts)
    /\ keyInput = NoKeyInput
    /\ keyResult = NoKeyResult

\* The host replaces the content of the active container: the observer's
\* callback runs.
TimersHostUpdates ==
    /\ host.updates < MaxTimerUpdates
    /\ timers.armed < MaxTimeouts
    /\ \E v \in PanelViews : v # panel /\ panel' = v
    /\ buttons' = [id \in DOMAIN buttons |-> IF id \in InContainer THEN "absent" ELSE buttons[id]]
    /\ panelText' = innerText(panel', buttons')
    /\ timers' = observerCallback(timers)
    /\ host' = [host EXCEPT !.updates = @ + 1, !.sinceCall = TRUE]
    /\ UNCHANGED <<crumbs, now, lastExtracted, lastRecordId, lastBreadcrumb,
                   lastProfileHash, validationAttempts, call, keyInput, keyResult>>

\* The observer's timeout fires: initialize().
TimersObserverFires ==
    /\ timers.armed < MaxTimeouts
    /\ \E p \in PendingOf("observer") : timers' = initializeCalled(Fired(timers, p))
    /\ UNCHANGED <<crumbs, panel, panelText, now, lastExtracted, lastRecordId,
                   lastBreadcrumb, lastProfileHash, validationAttempts, buttons, call,
                   host, keyInput, keyResult>>

\* The timeout of a retry fires: initialize().
TimersRetryFires ==
    /\ timers.armed < MaxTimeouts
    /\ \E p \in PendingOf("retry") : timers' = initializeCalled(Fired(timers, p))
    /\ UNCHANGED <<crumbs, panel, panelText, now, lastExtracted, lastRecordId,
                   lastBreadcrumb, lastProfileHash, validationAttempts, buttons, call,
                   host, keyInput, keyResult>>

\* The timeouts once the body of initialize has run: one for the retry it
\* has asked for, and the observer's for what it has changed in the page.
afterBody(t, retry, mutated) ==
    IF mutated
    THEN observerCallback(IF retry THEN setTimeoutOf(t, "retry") ELSE t)
    ELSE IF retry THEN setTimeoutOf(t, "retry") ELSE t

\* A timeout set by initialize() fires: the body of initialize.
TimersInitFires ==
    /\ timers.armed + 1 < MaxTimeouts
    /\ \E p \in PendingOf("init") :
        \E run \in {initialize(crumbs, panel, buttons, lastExtracted, lastBreadcrumb,
                               lastProfileHash, validationAttempts)} :
          /\ lastExtracted' = run.lastExtracted
          /\ lastBreadcrumb' = run.lastBreadcrumb
          /\ lastProfileHash' = run.lastProfileHash
          /\ validationAttempts' = run.validationAttempts
          /\ buttons' = run.buttons
          /\ panelText' = innerText(panel, run.buttons)
          /\ timers' = afterBody(Fired(timers, p), run.retry, run.mutated)
    /\ host' = [host EXCEPT !.seen = [run |-> TRUE, hash |-> ScanOf(panelText).hash,
                                       view |-> panel]]
    /\ UNCHANGED <<crumbs, panel, now, lastRecordId, call, keyInput, keyResult>>

\* enableButtonAfterDelay's timeout, for a button that is still in the page.
TimersEnableButton(b) ==
    /\ buttons[b] = "loading"
    /\ timers.armed < MaxTimeouts
    /\ buttons' = [buttons EXCEPT ![b] = "ready"]
    /\ panelText' = innerText(panel, buttons')
    /\ timers' = observerCallback(timers)
    /\ UNCHANGED <<crumbs, panel, now, lastExtracted, lastRecordId, lastBreadcrumb,
                   lastProfileHash, validationAttempts, call, host, keyInput, keyResult>>

NextTimers ==
    \/ TimersHostUpdates
    \/ TimersObserverFires
    \/ TimersRetryFires
    \/ TimersInitFires
    \/ \E b \in ButtonIds : TimersEnableButton(b)

SpecTimers == InitTimers /\ [][NextTimers]_vars

(***************************************************************************)
(* Properties of SpecTimers                                                *)
(***************************************************************************)
\* C30: at most one timeout set by initialize() and at most one set by the
\* observer's callback are pending, each the one whose id state.timers holds:
\* a call of initialize and an observed mutation clear the pending timeout of
\* their kind before they set another.
C30_OneTimerOfAKind ==
    /\ Cardinality(PendingOf("init")) <= 1
    /\ Cardinality(PendingOf("observer")) <= 1
    /\ \A p \in PendingOf("init") : p.id = timers.init
    /\ \A p \in PendingOf("observer") : p.id = timers.observer

\* The host has updated the page twice and the script has set more timeouts
\* than are pending: one of initialize() and one of the observer are.
C30_Witness ==
    /\ host.updates >= 2
    /\ timers.armed >= 4
    /\ Cardinality(PendingOf("init")) = 1
    /\ Cardinality(PendingOf("observer")) = 1

(***************************************************************************)
(* SpecRows: v2.2 on a parcel list whose rows the host adds and removes    *)
(***************************************************************************)
\* Here the variable panel holds the rows of the parcel list, each with its
\* Issue button and, after it, the "Copy Log" buttons that were inserted in
\* the row (logs, in document order), and the count the master button was
\* made for; the variable buttons holds the master and the label button. The
\* list has at most MaxRows rows and the host changes it MaxRowUpdates times.
MaxRows == 3
MaxRowUpdates == 2

HostRow == [logs |-> <<>>]

LogButton(id, status) == [id |-> id, status |-> status]

RECURSIVE LogsText(_)
LogsText(logs) ==
    IF logs = <<>> THEN ""
    ELSE (IF Head(logs).status = "loading" THEN "Loading..." ELSE "Copy Log")
         \o LogsText(Tail(logs))

RECURSIVE RowsText(_)
RowsText(rows) ==
    IF rows = <<>> THEN ""
    ELSE "Issue" \o LogsText(Head(rows).logs) \o "\n" \o RowsText(Tail(rows))

\* container.innerText: the entry id, the parcel count with the master button
\* after it, and the rows.
rowsInnerText(page, injected) ==
    "EntryID: " \o ResidentA.entry \o "\n"
    \o NumStr(Len(page.rows)) \o " Parcels"
    \o (CASE injected["package-log-master-btn"] = "absent"  -> ""
          [] injected["package-log-master-btn"] = "loading" -> "Loading..."
          [] OTHER -> "Copy " \o NumStr(page.pkgs) \o " pkgs")
    \o "\n" \o RowsText(page.rows)

\* The ids of the "Copy Log" buttons in the document.
LogIds(rows) == {rows[i].logs[j].id : <<i, j>> \in {x \in (1..Len(rows)) \X (1..MaxRows) :
                                                     x[2] <= Len(rows[x[1]].logs)}}

\* createIndividualButtons' forEach, from the Issue button of the given
\* index: a button whose id is in the document is not made again; a new one
\* is inserted right after the Issue button.
RECURSIVE createIndividualButtonsRows(_, _)
createIndividualButtonsRows(rows, index) ==
    IF index >= Len(rows) THEN rows
    ELSE createIndividualButtonsRows(
             IF IndividualId(index) \in LogIds(rows) THEN rows
             ELSE [rows EXCEPT ![index + 1].logs =
                                    <<LogButton(IndividualId(index), "loading")>> \o @],
             index + 1)

\* createMasterButton, for two Issue buttons or more.
createMasterButtonRows(dom, count) ==
    IF count >= 2 /\ dom.buttons["package-log-master-btn"] = "absent"
    THEN [dom EXCEPT !.buttons = Created(@, "package-log-master-btn"), !.pkgs = count]
    ELSE dom

\* createLogButtons on a page that shows no keys.
createLogButtonsRows(dom) ==
    [createMasterButtonRows([dom EXCEPT !.rows = createIndividualButtonsRows(@, 0)],
                            Len(dom.rows))
        EXCEPT !.buttons = createPackageLabelButton(@)]

\* clearOldButtons' removals.
clearOldButtonsRows(dom) ==
    [rows    |-> [i \in 1..Len(dom.rows) |-> HostRow],
     pkgs    |-> 0,
     buttons |-> removeButtons(dom.buttons)]

DomText(dom) == rowsInnerText(dom, dom.buttons)

\* The body of initialize on the rows.
initializeRowsChanged(dom, cleared, changed, cache, breadcrumb, currentBreadcrumb, lastHash, attempts) ==
    initializeRun(dom, cleared, changed, cache, breadcrumb, currentBreadcrumb, lastHash,
                  IF changed THEN 0 ELSE attempts,
                  includes(DomText(cleared), "EntryID:"),
                  createLogButtonsRows(cleared))

initializeRowsRead(dom, cache, breadcrumb, currentBreadcrumb, hashed, attempts) ==
    initializeRowsChanged(dom,
                          IF currentBreadcrumb # breadcrumb \/ hashed.changed
                          THEN clearOldButtonsRows(dom) ELSE dom,
                          currentBreadcrumb # breadcrumb \/ hashed.changed,
                          cache, breadcrumb, currentBreadcrumb, hashed.lastProfileHash,
                          attempts)

initializeRows(breadcrumbs, dom, text, cache, breadcrumb, hash, attempts) ==
    initializeRowsRead(dom, cache, breadcrumb, getCurrentBreadcrumb(breadcrumbs),
                       hashChanged(HashOf(simpleHash(text)), hash), attempts)

\* The script is loaded into resident A's profile with one parcel or more.
InitRows ==
    /\ ScriptLoaded
    /\ crumbs = ProfileCrumbs(ResidentA, ResidentA.name)
    /\ \E n \in 1..MaxRows : panel = [rows |-> [i \in 1..n |-> HostRow], pkgs |-> 0]
    /\ panelText = rowsInnerText(panel, NoButtons)
    /\ timers = [NoTimers EXCEPT !.init = TRUE]
    /\ keyInput = NoKeyInput
    /\ keyResult = NoKeyResult

\* The host removes a row, and with it what the script has put into the row.
RowsHostRemoves ==
    /\ host.updates < MaxRowUpdates
    /\ \E i \in 1..Len(panel.rows) :
          panel' = [panel EXCEPT !.rows = SubSeq(@, 1, i - 1) \o SubSeq(@, i + 1, Len(@))]
    /\ panelText' = rowsInnerText(panel', buttons)
    /\ timers' = Observed(timers)
    /\ host' = [host EXCEPT !.updates = @ + 1, !.sinceCall = TRUE]
    /\ UNCHANGED <<crumbs, now, lastExtracted, lastRecordId, lastBreadcrumb,
                   lastProfileHash, validationAttempts, buttons, call, keyInput, keyResult>>

\* The host adds a row at the head or at the end of the list.
RowsHostAdds ==
    /\ host.updates < MaxRowUpdates
    /\ Len(panel.rows) < MaxRows
    /\ \E atHead \in BOOLEAN :
          panel' = [panel EXCEPT !.rows = IF atHead THEN <<HostRow>> \o @
                                          ELSE @ \o <<HostRow>>]
    /\ panelText' = rowsInnerText(panel', buttons)
    /\ timers' = Observed(timers)
    /\ host' = [host EXCEPT !.updates = @ + 1, !.sinceCall = TRUE]
    /\ UNCHANGED <<crumbs, now, lastExtracted, lastRecordId, lastBreadcrumb,
                   lastProfileHash, validationAttempts, buttons, call, keyInput, keyResult>>

\* state.timers.observer fires: initialize() sets state.timers.init anew.
RowsObserverFires ==
    /\ timers.observer
    /\ timers' = [timers EXCEPT !.observer = FALSE, !.init = TRUE]
    /\ UNCHANGED <<crumbs, panel, panelText, now, lastExtracted, lastRecordId,
                   lastBreadcrumb, lastProfileHash, validationAttempts, buttons, call,
                   host, keyInput, keyResult>>

\* No button in the page still reads "Loading...".
AllEnabled(rows, injected) ==
    /\ \A i \in 1..Len(rows) : \A j \in 1..Len(rows[i].logs) : rows[i].logs[j].status # "loading"
    /\ \A b \in ButtonIds : injected[b] # "loading"

\* state.timers.init fires: the body of initialize. On this page initialize
\* is called by the observer's timeout alone, OBSERVER_DEBOUNCE (800 ms) after
\* the latest mutation, and the body runs INIT_DEBOUNCE (500 ms) later: the
\* buttons of the run before, enabled after BUTTON_ENABLE_DELAY (1000 ms), are
\* enabled by then.
RowsInitFires ==
    /\ timers.init
    /\ AllEnabled(panel.rows, buttons)
    /\ \E run \in {initializeRows(crumbs,
                                  [rows |-> panel.rows, pkgs |-> panel.pkgs, buttons |-> buttons],
                                  panelText, lastExtracted, lastBreadcrumb, lastProfileHash,
                                  validationAttempts)} :
          /\ ~run.retry
          /\ lastExtracted' = run.lastExtracted
          /\ lastBreadcrumb' = run.lastBreadcrumb
          /\ lastProfileHash' = run.lastProfileHash
          /\ validationAttempts' = run.validationAttempts
          /\ buttons' = run.buttons.buttons
          /\ panel' = [rows |-> run.buttons.rows, pkgs |-> run.buttons.pkgs]
          /\ panelText' = DomText(run.buttons)
          /\ timers' = [timers EXCEPT !.init = FALSE, !.observer = @ \/ run.mutated]
    /\ UNCHANGED <<crumbs, now, lastRecordId, call, host, keyInput, keyResult>>

\* enableButtonAfterDelay's timeout for a "Copy Log" button that is still in
\* the page.
RowsEnableLog ==
    /\ \E i \in 1..Len(panel.rows) :
        \E j \in 1..Len(panel.rows[i].logs) :
          /\ panel.rows[i].logs[j].status = "loading"
          /\ panel' = [panel EXCEPT !.rows[i].logs[j].status = "ready"]
    /\ panelText' = rowsInnerText(panel', buttons)
    /\ timers' = Observed(timers)
    /\ UNCHANGED <<crumbs, now, lastExtracted, lastRecordId, lastBreadcrumb,
                   lastProfileHash, validationAttempts, buttons, call, host, keyInput,
                   keyResult>>

\* The same for the master button and the label button.
RowsEnableButton(b) ==
    /\ buttons[b] = "loading"
    /\ buttons' = [buttons EXCEPT ![b] = "ready"]
    /\ panelText' = rowsInnerText(panel, buttons')
    /\ timers' = Observed(timers)
    /\ UNCHANGED <<crumbs, panel, now, lastExtracted, lastRecordId, lastBreadcrumb,
                   lastProfileHash, validationAttempts, call, host, keyInput, keyResult>>

NextRows ==
    \/ RowsHostRemoves
    \/ RowsHostAdds
    \/ RowsObserverFires
    \/ RowsInitFires
    \/ RowsEnableLog
    \/ \E b \in ButtonIds : RowsEnableButton(b)

SpecRows == InitRows /\ [][NextRows]_vars

(***************************************************************************)
(* Properties of SpecRows                                                  *)
(***************************************************************************)
\* C26: whatever rows the host adds and removes and whatever runs of
\* initialize follow, each Issue button has at most one injected "Copy Log"
\* button next to it (the master, the lockout and the label button are made
\* under a test of their id).
C26_OneCopyLogPerIssue ==
    \A i \in 1..Len(panel.rows) : Len(panel.rows[i].logs) <= 1

=============================================================================
